---- MODULE Spec2Model ----
(***************************************************************************)
(* The real-time duplex session of blind-eye: the LiveClient class of      *)
(* services/liveClient.ts (the isConnected variant, lines 12-231, and the  *)
(* sessionPromise variant, lines 243-406), driven by its owner and by the  *)
(* transport, the microphone and the output audio clock; the App component *)
(* that owns a client and feeds it video frames (unnamed/part_002, both    *)
(* Apps); the Apps that navigate by analysing single frames                *)
(* (unnamed/part_001 and App.tsx); the speech recognition hook             *)
(* (hooks/useSpeechRecognition.ts); and the audio codec                    *)
(* (services/audioUtils.ts).                                               *)
(*                                                                         *)
(* One JavaScript task (a public call, a transport callback, the           *)
(* continuation of an await) is one action.  Time is counted in units of   *)
(* 50 ms of the output AudioContext's currentTime.                         *)
(***************************************************************************)
EXTENDS Integers, Sequences, FiniteSets, TLC

\* ---------------------------------------------------------------- bounds
\* what the owner and the environment do at most in one run of the session's life
MaxAttempts == 2       \* connect() calls on the one instance
MaxDisconnects == 2    \* disconnect() calls of the owner
MaxReenter == 1        \* disconnect() calls the owner's status callback makes in one task
MaxSends == 2          \* sendRealtimeInput invocations
\* and in one run of the playback scheduler
PlayAttempts == 2
PlayDisconnects == 1
MaxMsgs == 3           \* inbound messages
MaxTicks == 2          \* steps of the output clock since its context was created
\* and in one pass through the codec
MaxSamples == 2        \* length of the Float32Array
MaxBytes == 3          \* length of a byte sequence put on the wire
\* and in the life of one session, of the App's frame timer and of the speech hook
OneAttempt == 1        \* connect() calls
MaxShots == 2          \* screenshots the frame timer obtains
MaxRecognitions == 3   \* recognition objects made
MaxLoops == 2          \* navigationLoop instances started (part_001)
MaxRuns == 3           \* runNavLoop invocations (App.tsx)
MaxAnalyses == 2       \* frame analyses begun
MaxStops == 1          \* stopSession() calls the user makes in the first App
MaxStack == 3          \* nested stopSession() calls the JS call stack has room for

\* chunk durations (200 and 250 ms) and the step of the clock (200 ms)
\* part_001 line 162: the 100 ms waits between two analyses
WaitTicks == 20

Durations == {4, 5}
TickSteps == {4}

Null == 0
Recognitions == 1..MaxRecognitions
Loops == 1..(IF MaxLoops > MaxRuns THEN MaxLoops ELSE MaxRuns)
Attempts == 1..(IF MaxAttempts > PlayAttempts THEN MaxAttempts ELSE PlayAttempts)

Range(s) == {s[i] : i \in DOMAIN s}

VARIABLES
  variant,             \* "A": lines 12-231, "B": lines 243-406
  \* ---- the fields of the LiveClient object
  session,             \* A: the session handle (the attempt that opened it) or Null
  sessionPromise,      \* B: the promise of ai.live.connect (its attempt) or Null
  isConnected,         \* A
  inputAudioContext,   \* Null or the id of the context
  outputAudioContext,
  nextStartTime,
  audioQueue,          \* sequence of playback sources (indices into sources)
  mediaStream,
  processor,
  \* ---- the browser and the transport
  clock,               \* outputAudioContext.currentTime of the current output context
  conn,                \* per connect() attempt: the await it is at, its transport
  thenQ,               \* B: per attempt, the callbacks registered on a pending promise
  inflight,            \* handleServerMessage invocations awaiting decodeAudioData, oldest first
                       \* (cut: an interruption was handled while the invocation waited)
  closed,              \* sessions on which close() was called
  outOpen,             \* output AudioContexts created and not closed
  inOpen,              \* input AudioContexts created and not closed
  micLive,             \* microphone streams acquired whose tracks were not stopped
  procLive,            \* <<processor, context>> whose onaudioprocess can still fire
  \* ---- what the owner and the remote end observe
  statusLog,           \* onStatusChange calls, in order, each with its attempt
  sources,             \* every playback source ever started
  sent,                \* session.sendRealtimeInput invocations, in order
  tornDown,            \* attempts 1..tornDown have begun teardown
  steps,               \* what the disconnect() executions of the last task that wrote
                       \* to the client did, in the order they did it
  resetAt,             \* clock read of the last interruption reset in this context, or -1
  chain,               \* the source scheduled last since the last connect or reset, or 0
  \* ---- the owner and the environment
  ownerCalls,          \* disconnect() calls the owner's status callback makes in one task
  limit,               \* how many connect() and disconnect() calls the owner makes
  nConnect, nDisconnect, nMsg,
  \* ---- the App component that owns the client (unnamed/part_002)
  app,                 \* "none": an owner that is not the App; "first": lines 20-144
                       \* of part_002; "second": lines 162-341
  liveClientRef,       \* liveClientRef.current: Null or the client (its connect() attempt)
  frameIntervalRef,    \* frameIntervalRef.current: Null or the id of an interval timer
  timers,              \* interval timers set and not cleared
  navPc,               \* per startLiveNavigation call: where it is
  camera,              \* "error": no webcam; "starting": no screenshot yet; "ready"
  nShots,              \* screenshots the frame timer's callback obtained
  \* ---- hooks/useSpeechRecognition.ts
  isListening,         \* the state the last render saw
  recognitionRef,      \* recognitionRef.current: Null or a recognition object
  isMounted,           \* isMounted.current
  retryTimeoutRef,     \* retryTimeoutRef.current: Null or the id of a timeout
  timeouts,            \* timeouts set that have neither fired nor been cleared
  recog,               \* per recognition object: what it can still deliver
  nTimeouts,           \* timeouts set so far
  \* ---- the Apps that navigate by analysing single frames (part_001, App.tsx)
  mode,                \* the App's mode state, as the last setMode left it
  modeRef,             \* App.tsx: the mode of the last render whose effects ran
  isNavigatingRef,     \* part_001
  navLoopTimer,        \* App.tsx: the timeout id kept for the navigation loop
  navTimers,           \* App.tsx: timeouts set and neither fired nor cleared
  loops,               \* per navigationLoop instance (part_001) or runNavLoop
                       \* invocation (App.tsx): the await it is at, its wait count
  nAnalyses,           \* frame analyses begun
  spoken,              \* analysis results spoken and displayed
  \* ---- services/audioUtils.ts: one pass of data through the codec
  stage,               \* what has been computed so far
  float32Array,        \* the samples float32ToB64PCM is given
  pcm,                 \* the bytes handed to the byte-to-text path (line 57)
  base64,              \* the text, as character codes
  bytes,               \* what base64ToUint8Array returned
  audioBuffer          \* what decodeAudioData returned

fields == <<session, sessionPromise, isConnected, inputAudioContext, outputAudioContext,
            nextStartTime, audioQueue, mediaStream, processor>>
devices == <<closed, outOpen, inOpen, micLive, procLive>>
observed == <<statusLog, sources, tornDown, steps>>
sched == <<resetAt, chain>>
budget == <<ownerCalls, limit, nConnect, nDisconnect, nMsg>>
codec == <<stage, float32Array, pcm, base64, bytes, audioBuffer>>
appRefs == <<liveClientRef, frameIntervalRef, timers, navPc>>
appEnv == <<app, camera, nShots>>
speech == <<isListening, recognitionRef, isMounted, retryTimeoutRef, timeouts, recog,
            nTimeouts>>
shell == <<mode, modeRef, isNavigatingRef, navLoopTimer, navTimers, loops, nAnalyses,
           spoken>>
\* the client, its owner and its environment
client == <<variant, appEnv, fields, devices, appRefs, observed, clock, conn, thenQ,
            inflight, sent, sched, budget>>
vars == <<variant, fields, devices, observed, clock, conn, thenQ, inflight, sent,
          sched, budget, codec, appRefs, appEnv, speech, shell>>

\* The object and everything a teardown touches, as one record.
World ==
  [session |-> session, sessionPromise |-> sessionPromise, isConnected |-> isConnected,
   inputAudioContext |-> inputAudioContext, outputAudioContext |-> outputAudioContext,
   nextStartTime |-> nextStartTime, audioQueue |-> audioQueue,
   mediaStream |-> mediaStream, processor |-> processor,
   closed |-> closed, outOpen |-> outOpen, inOpen |-> inOpen, micLive |-> micLive,
   procLive |-> procLive, thenQ |-> thenQ,
   statusLog |-> statusLog, sources |-> sources, tornDown |-> tornDown,
   steps |-> <<>>,
   liveClientRef |-> liveClientRef, frameIntervalRef |-> frameIntervalRef,
   timers |-> timers, navPc |-> navPc,
   run |-> 0,           \* disconnect() executions begun in this task
   started |-> nConnect,
   owner |-> ownerCalls,
   nested |-> FALSE,    \* inside a disconnect() called from a status callback
   thrown |-> FALSE]    \* an exception is unwinding this task

Commit(w) ==
  /\ session' = w.session
  /\ sessionPromise' = w.sessionPromise
  /\ isConnected' = w.isConnected
  /\ inputAudioContext' = w.inputAudioContext
  /\ outputAudioContext' = w.outputAudioContext
  /\ nextStartTime' = w.nextStartTime
  /\ audioQueue' = w.audioQueue
  /\ mediaStream' = w.mediaStream
  /\ processor' = w.processor
  /\ closed' = w.closed
  /\ outOpen' = w.outOpen
  /\ inOpen' = w.inOpen
  /\ micLive' = w.micLive
  /\ procLive' = w.procLive
  /\ thenQ' = w.thenQ
  /\ statusLog' = w.statusLog
  /\ sources' = w.sources
  /\ tornDown' = w.tornDown
  /\ steps' = w.steps
  /\ liveClientRef' = w.liveClientRef
  /\ frameIntervalRef' = w.frameIntervalRef
  /\ timers' = w.timers
  /\ navPc' = w.navPc

Terminal == {"disconnected", "error"}

\* ------------------------------------------------ LiveClient (lines 12-231)

\* Faulty variant: the queue is emptied and its sources play on
stopAudioQueue_no_stop(w) == [w EXCEPT !.audioQueue = <<>>]

\* stopAudioQueue: source.stop() on every queued source, then the queue is emptied
stopAudioQueue(w) ==
  [w EXCEPT !.sources = [i \in DOMAIN w.sources |->
                           IF i \in Range(w.audioQueue)
                           THEN [w.sources[i] EXCEPT !.stopped = TRUE]
                           ELSE w.sources[i]],
            !.audioQueue = <<>>]

\* the running disconnect() execution does one thing more
did(w, what) == [w EXCEPT !.steps = Append(@, [x |-> w.run, step |-> what])]

\* Faulty variant: the microphone and the contexts are released before the session
\* is marked inactive and closed
teardown_close_last(w) ==
  LET w3 == IF w.mediaStream # Null
            THEN did([w EXCEPT !.micLive = @ \ {w.mediaStream}, !.mediaStream = Null],
                     "tracks")
            ELSE w
      w4 == IF w3.processor # Null
            THEN did([w3 EXCEPT !.procLive = {p \in @ : p[1] # w3.processor},
                                !.processor = Null], "processor")
            ELSE w3
      w5 == IF w4.inputAudioContext # Null
            THEN did([w4 EXCEPT !.inOpen = @ \ {w4.inputAudioContext},
                                !.procLive = {p \in @ : p[2] # w4.inputAudioContext},
                                !.inputAudioContext = Null], "inputContext")
            ELSE w4
      w6 == did(stopAudioQueue(w5), "queue")
      w7 == IF w6.outputAudioContext # Null
            THEN did([w6 EXCEPT !.outOpen = @ \ {w6.outputAudioContext},
                                !.outputAudioContext = Null], "outputContext")
            ELSE w6
      w8 == did([w7 EXCEPT !.isConnected = FALSE, !.tornDown = w.started], "inactive")
  IN IF w8.session # Null
     THEN did([w8 EXCEPT !.closed = @ \cup {w8.session}, !.session = Null], "close")
     ELSE w8

\* lines 81-114 of disconnect(): everything before the status callback
teardown(w) ==
  LET w1 == did([w EXCEPT !.isConnected = FALSE, !.tornDown = w.started], "inactive")
      w2 == IF w1.session # Null
            THEN did([w1 EXCEPT !.closed = @ \cup {w1.session}, !.session = Null],
                     "close")
            ELSE w1
      w3 == IF w2.mediaStream # Null
            THEN did([w2 EXCEPT !.micLive = @ \ {w2.mediaStream}, !.mediaStream = Null],
                     "tracks")
            ELSE w2
      w4 == IF w3.processor # Null
            THEN did([w3 EXCEPT !.procLive = {p \in @ : p[1] # w3.processor},
                                !.processor = Null], "processor")
            ELSE w3
      w5 == IF w4.inputAudioContext # Null
            THEN did([w4 EXCEPT !.inOpen = @ \ {w4.inputAudioContext},
                                !.procLive = {p \in @ : p[2] # w4.inputAudioContext},
                                !.inputAudioContext = Null], "inputContext")
            ELSE w4
      w6 == did(stopAudioQueue(w5), "queue")
  IN IF w6.outputAudioContext # Null
     THEN did([w6 EXCEPT !.outOpen = @ \ {w6.outputAudioContext},
                         !.outputAudioContext = Null], "outputContext")
     ELSE w6

\* lines 307-335 of the sessionPromise variant's disconnect(): close() is chained on
\* the promise, whose callback runs it once disconnect() has returned (it is not an
\* entry of steps)
teardownB(w) ==
  LET sp == w.sessionPromise
      w1 == [w EXCEPT !.tornDown = w.started]
      w2 == IF sp = Null THEN w1
            ELSE [w1 EXCEPT !.thenQ[sp] = IF conn[sp].tr = "connecting"
                                          THEN Append(@, [kind |-> "close", block |-> 0])
                                          ELSE @,
                            !.closed = IF conn[sp].tr = "ready" THEN @ \cup {sp} ELSE @,
                            !.sessionPromise = Null]
      w3 == IF w2.mediaStream # Null
            THEN did([w2 EXCEPT !.micLive = @ \ {w2.mediaStream}, !.mediaStream = Null],
                     "tracks")
            ELSE w2
      w4 == IF w3.processor # Null
            THEN did([w3 EXCEPT !.procLive = {p \in @ : p[1] # w3.processor},
                                !.processor = Null], "processor")
            ELSE w3
      w5 == IF w4.inputAudioContext # Null
            THEN did([w4 EXCEPT !.inOpen = @ \ {w4.inputAudioContext},
                                !.procLive = {p \in @ : p[2] # w4.inputAudioContext},
                                !.inputAudioContext = Null], "inputContext")
            ELSE w4
      w6 == did(stopAudioQueue(w5), "queue")
  IN IF w6.outputAudioContext # Null
     THEN did([w6 EXCEPT !.outOpen = @ \ {w6.outputAudioContext},
                         !.outputAudioContext = Null], "outputContext")
     ELSE w6

\* what a disconnect() call finds to release
held(w) ==
  Cardinality({f \in {"session", "mediaStream", "processor", "inputAudioContext",
                      "outputAudioContext", "sessionPromise"} : w[f] # Null})
  + Len(w.audioQueue)

\* part_002 lines 83-86 of stopSession: the frame timer is cleared
clearFrames(w) ==
  IF w.frameIntervalRef # Null
  THEN [w EXCEPT !.timers = @ \ {w.frameIntervalRef}, !.frameIntervalRef = Null]
  ELSE w

\* part_002 line 90: the client is forgotten, unless an exception unwinds the
\* caller
forget(w) == IF w.thrown THEN w ELSE [w EXCEPT !.liveClientRef = Null]

\* the rest of the callback once its nested call has returned
unwind(first, w) == IF first THEN forget(w) ELSE w

\* a call for which the stack has no room throws a RangeError, which unwinds every
\* caller
rangeError(w) == did([w EXCEPT !.thrown = TRUE], "RangeError")

\* where connect() is once its catch has run the steps st: returned, or left by
\* an exception of the status callback
caught(st) ==
  IF \E i \in DOMAIN st : st[i].step = "RangeError" THEN "threw" ELSE "done"

RECURSIVE disconnect(_, _, _)

\* callbacks.onStatusChange(status) for attempt k.  On a terminal status the
\* callback of the first App (part_002 lines 57-65) calls stopSession(), which
\* clears the frame timer, disconnects the client it holds and then forgets it;
\* an owner that is not the App may call disconnect() (w.owner times in this JS
\* task).  An entry of the log says whether it was delivered by such a nested
\* call, and what that call found to release.
onStatusChange(w, status, k) ==
  LET w1 == [w EXCEPT !.statusLog = Append(@, [s |-> status, a |-> k,
                                               nested |-> w.nested])]
      first == app = "first"
      w2 == IF first THEN clearFrames(w1) ELSE [w1 EXCEPT !.owner = @ - 1]
  IN IF w.thrown THEN w
     ELSE IF app = "second"
     THEN \* part_002 lines 223-233: on 'error' the frame timer is cleared
          IF status = "error" /\ w1.frameIntervalRef # Null
          THEN [w1 EXCEPT !.timers = @ \ {w1.frameIntervalRef}]
          ELSE w1
     ELSE IF status \notin Terminal THEN w1
     ELSE IF first /\ w1.liveClientRef = Null THEN w2
     ELSE IF first /\ w1.run >= MaxStack THEN rangeError(w2)
     ELSE IF ~first /\ w1.owner = 0 THEN w1
     ELSE [unwind(first, disconnect(w2, IF first THEN w1.liveClientRef ELSE k, TRUE))
             EXCEPT !.nested = w.nested]

\* disconnect(), lines 80-117 and 306-338.  nested: called from inside a status
\* callback.
disconnect(w, k, nested) ==
  LET w0 == [w EXCEPT !.run = @ + 1]
      w1 == IF variant = "A" THEN teardown(w0) ELSE teardownB(w0)
  IN IF w.thrown THEN w
     ELSE onStatusChange(did([w1 EXCEPT !.nested = nested], "status"), "disconnected", k)

\* startAudioInput up to its await (lines 126-134); the second component says
\* whether getUserMedia was called
startAudioInput(w, k) ==
  IF ~w.isConnected \/ w.session = Null
  THEN <<w, FALSE>>
  ELSE <<[w EXCEPT !.inputAudioContext = k, !.inOpen = @ \cup {k}], TRUE>>

\* connect() up to its first await (lines 29-44), called in a task that has made
\* the client w0
connectFrom(w0, suspended) ==
  /\ variant = "A"
  /\ nConnect < limit.attempts
  /\ LET k == nConnect + 1
         w1 == onStatusChange(w0, "connected", k)
         w2 == [w1 EXCEPT !.outputAudioContext = k, !.outOpen = @ \cup {k}]
     IN /\ nConnect' = k
        /\ clock' = 0
        /\ resetAt' = -1
        /\ chain' = 0
        /\ IF suspended
           THEN /\ Commit(w2)
                /\ conn' = [conn EXCEPT ![k].pc = "resume"]
           ELSE /\ Commit([w2 EXCEPT !.nextStartTime = 0])
                /\ conn' = [conn EXCEPT ![k].pc = "await", ![k].tr = "connecting"]
  /\ UNCHANGED <<variant, codec, speech, shell, appEnv, inflight, sent, ownerCalls, limit, nDisconnect, nMsg>>

\* the owner calls connect()
connect(suspended) == connectFrom(World, suspended)

\* the owner calls disconnect()
Disconnect ==
  /\ nConnect > 0
  /\ nDisconnect < limit.disconnects
  /\ nDisconnect' = nDisconnect + 1
  /\ Commit(disconnect(World, nConnect, FALSE))
  /\ UNCHANGED <<variant, codec, speech, shell, appEnv, clock, conn, inflight, sent, sched, ownerCalls, limit, nConnect, nMsg>>

\* connect() resumed after outputAudioContext.resume() (lines 38-44); a context
\* closed meanwhile makes line 41 throw into the catch of lines 73-77
resumeDone(k) ==
  /\ variant = "A"
  /\ conn[k].pc = "resume"
  /\ IF outputAudioContext = Null
     THEN /\ Commit(disconnect(onStatusChange(World, "error", k), k, FALSE))
          /\ conn' = [conn EXCEPT ![k].pc = caught(steps')]
     ELSE /\ Commit([World EXCEPT !.nextStartTime = clock])
          /\ conn' = [conn EXCEPT ![k].pc = "await", ![k].tr = "connecting"]
  /\ chain' = 0
  /\ UNCHANGED <<variant, codec, speech, shell, appEnv, clock, inflight, sent, resetAt, budget>>

\* ai.live.connect resolves: line 44 stores the session handle
connectResolve(k) ==
  /\ variant = "A"
  /\ conn[k].pc = "await" /\ conn[k].tr = "connecting"
  /\ Commit([World EXCEPT !.session = k])
  /\ conn' = [conn EXCEPT ![k].pc = "done", ![k].tr = "ready"]
  /\ UNCHANGED <<variant, codec, speech, shell, appEnv, clock, inflight, sent, sched, budget>>

\* ai.live.connect rejects: the catch of lines 73-77
connectReject(k) ==
  /\ variant = "A"
  /\ conn[k].pc = "await" /\ conn[k].tr = "connecting" /\ ~conn[k].opened
  /\ Commit(disconnect(onStatusChange(World, "error", k), k, FALSE))
  /\ conn' = [conn EXCEPT ![k].pc = caught(steps'), ![k].tr = "failed"]
  /\ UNCHANGED <<variant, codec, speech, shell, appEnv, clock, inflight, sent, sched, budget>>

\* the transport of attempt k can still deliver events
Alive(k) == conn[k].tr \in {"connecting", "ready"} /\ ~conn[k].ended

\* Faulty variant: the status is reported when the transport has opened
onopen_reports_connected(k) ==
  /\ variant = "A"
  /\ Alive(k) /\ ~conn[k].opened /\ k \notin closed
  /\ LET w1 == [World EXCEPT !.isConnected = TRUE]
         sa == startAudioInput(w1, k)
     IN /\ Commit(onStatusChange(sa[1], "connected", k))
        /\ conn' = [conn EXCEPT ![k].opened = TRUE,
                                ![k].gum = IF sa[2] THEN "pending" ELSE "none"]
  /\ UNCHANGED <<variant, codec, speech, shell, appEnv, clock, inflight, sent, sched, budget>>

\* callbacks.onopen (lines 54-58)
onopen(k) ==
  /\ variant = "A"
  /\ Alive(k) /\ ~conn[k].opened /\ k \notin closed
  /\ LET w1 == [World EXCEPT !.isConnected = TRUE]
         sa == startAudioInput(w1, k)
     IN /\ Commit(sa[1])
        /\ conn' = [conn EXCEPT ![k].opened = TRUE,
                                ![k].gum = IF sa[2] THEN "pending" ELSE "none"]
  /\ UNCHANGED <<variant, codec, speech, shell, appEnv, clock, inflight, sent, sched, budget>>

\* startAudioInput resumed with the stream (lines 143-172); a context released
\* meanwhile makes line 145 throw into the catch of lines 174-177
gumResolve(k) ==
  /\ variant = "A"
  /\ conn[k].gum = "pending"
  /\ LET w1 == [World EXCEPT !.mediaStream = k, !.micLive = @ \cup {k}]
     IN IF w1.inputAudioContext = Null
        THEN Commit(disconnect(w1, k, FALSE))
        ELSE Commit([w1 EXCEPT !.processor = k,
                               !.procLive = @ \cup {<<k, w1.inputAudioContext>>}])
  /\ conn' = [conn EXCEPT ![k].gum = "done"]
  /\ UNCHANGED <<variant, codec, speech, shell, appEnv, clock, inflight, sent, sched, budget>>

\* getUserMedia rejects: the catch of lines 174-177
gumReject(k) ==
  /\ variant = "A"
  /\ conn[k].gum = "pending"
  /\ Commit(disconnect(World, k, FALSE))
  /\ conn' = [conn EXCEPT ![k].gum = "failed"]
  /\ UNCHANGED <<variant, codec, speech, shell, appEnv, clock, inflight, sent, sched, budget>>

\* callbacks.onclose (lines 60-64)
onclose(k) ==
  /\ variant = "A"
  /\ Alive(k) /\ conn[k].opened
  /\ Commit(disconnect([World EXCEPT !.isConnected = FALSE], k, FALSE))
  /\ conn' = [conn EXCEPT ![k].ended = TRUE]
  /\ UNCHANGED <<variant, codec, speech, shell, appEnv, clock, inflight, sent, sched, budget>>

\* Faulty variant: after the teardown the transport is connected again
onerror_reconnects(k) ==
  /\ variant = "A"
  /\ Alive(k) /\ conn[k].opened /\ k \notin closed
  /\ Commit(disconnect(onStatusChange(World, "error", k), k, FALSE))
  /\ conn' = [conn EXCEPT ![k].tr = "connecting", ![k].opened = FALSE]
  /\ UNCHANGED <<variant, codec, speech, shell, appEnv, clock, inflight, sent, sched, budget>>

\* Faulty variant: the error is reported and nothing is released
onerror_status_only(k) ==
  /\ variant = "A"
  /\ Alive(k) /\ conn[k].opened /\ k \notin closed
  /\ Commit(onStatusChange(World, "error", k))
  /\ conn' = [conn EXCEPT ![k].ended = TRUE]
  /\ UNCHANGED <<variant, codec, speech, shell, appEnv, clock, inflight, sent, sched, budget>>

\* callbacks.onerror (lines 65-69)
onerror(k) ==
  /\ variant = "A"
  /\ Alive(k) /\ conn[k].opened /\ k \notin closed
  /\ Commit(disconnect(onStatusChange(World, "error", k), k, FALSE))
  /\ conn' = [conn EXCEPT ![k].ended = TRUE]
  /\ UNCHANGED <<variant, codec, speech, shell, appEnv, clock, inflight, sent, sched, budget>>

\* Faulty variant: the cursor is overwritten with the clock read, whatever it was
startTimeA_always_now(nst, now) == now

\* the start time line 215-217 gives the next source
startTimeA(nst, now) == IF nst < now THEN now ELSE nst

\* Faulty variant: the cursor advances from the clock read, not from the start time
schedule_from_now(w, start, chunk, now, prev) ==
  [w EXCEPT !.sources = Append(@, [start |-> start, dur |-> chunk.dur, n |-> chunk.n,
                                   at |-> now, ctx |-> w.outputAudioContext,
                                   prev |-> prev, stopped |-> FALSE]),
            !.audioQueue = Append(@, Len(w.sources) + 1),
            !.nextStartTime = now + chunk.dur]

\* Faulty variant: the cursor is not advanced past the source
schedule_cursor_kept(w, start, chunk, now, prev) ==
  [w EXCEPT !.sources = Append(@, [start |-> start, dur |-> chunk.dur, n |-> chunk.n,
                                   at |-> now, ctx |-> w.outputAudioContext,
                                   prev |-> prev, stopped |-> FALSE]),
            !.audioQueue = Append(@, Len(w.sources) + 1),
            !.nextStartTime = start]

\* lines 215-225: the source of a chunk (its duration, the number of its message)
\* is created, started, queued, the cursor advanced
schedule(w, start, chunk, now, prev) ==
  [w EXCEPT !.sources = Append(@, [start |-> start, dur |-> chunk.dur, n |-> chunk.n,
                                   at |-> now, ctx |-> w.outputAudioContext,
                                   prev |-> prev, stopped |-> FALSE]),
            !.audioQueue = Append(@, Len(w.sources) + 1),
            !.nextStartTime = start + chunk.dur]

\* Faulty variant: an interruption ends the session
onmessage_interruption_disconnects(k, m) ==
  /\ variant = "A"
  /\ Alive(k) /\ conn[k].opened /\ k \notin closed
  /\ nMsg < MaxMsgs
  /\ nMsg' = nMsg + 1
  /\ IF m = 0
     THEN /\ Commit(disconnect(World, k, FALSE))
          /\ resetAt' = IF outputAudioContext # Null THEN clock ELSE resetAt
          /\ chain' = 0
          /\ inflight' = [i \in DOMAIN inflight |-> [inflight[i] EXCEPT !.cut = TRUE]]
     ELSE /\ inflight' = IF outputAudioContext # Null
                         THEN Append(inflight, [dur |-> m, n |-> nMsg + 1, k |-> k, cut |-> FALSE])
                         ELSE inflight
          /\ UNCHANGED <<fields, devices, appRefs, observed, thenQ, sched>>
  /\ UNCHANGED <<variant, codec, speech, shell, appEnv, clock, conn, sent, ownerCalls, limit, nConnect, nDisconnect>>

\* handleServerMessage up to its await (lines 197-213)
onmessage(k, m) ==
  /\ variant = "A"
  /\ Alive(k) /\ conn[k].opened /\ k \notin closed
  /\ nMsg < MaxMsgs
  /\ nMsg' = nMsg + 1
  /\ IF m = 0
     THEN /\ Commit(LET w == stopAudioQueue(World)
                    IN IF w.outputAudioContext # Null
                       THEN [w EXCEPT !.nextStartTime = clock]
                       ELSE w)
          /\ resetAt' = IF outputAudioContext # Null THEN clock ELSE resetAt
          /\ chain' = 0
          /\ inflight' = [i \in DOMAIN inflight |-> [inflight[i] EXCEPT !.cut = TRUE]]
     ELSE /\ inflight' = IF outputAudioContext # Null
                         THEN Append(inflight, [dur |-> m, n |-> nMsg + 1, k |-> k, cut |-> FALSE])
                         ELSE inflight
          /\ UNCHANGED <<fields, devices, appRefs, observed, thenQ, sched>>
  /\ UNCHANGED <<variant, codec, speech, shell, appEnv, clock, conn, sent, ownerCalls, limit, nConnect, nDisconnect>>

\* Faulty variant: the handler that began to wait last resumes first
handlerResume_lifo(ok) ==
  /\ variant = "A"
  /\ inflight # <<>>
  /\ inflight' = SubSeq(inflight, 1, Len(inflight) - 1)
  /\ IF ok /\ outputAudioContext # Null
     THEN /\ Commit(schedule(World, startTimeA(nextStartTime, clock),
                             inflight[Len(inflight)], clock, chain))
          /\ chain' = Len(sources) + 1
     ELSE UNCHANGED <<fields, devices, appRefs, observed, thenQ, chain>>
  /\ UNCHANGED <<variant, codec, speech, shell, appEnv, clock, conn, sent, resetAt, budget>>

\* Faulty variant: a failed decode ends the session
handlerResume_fatal(ok) ==
  /\ variant = "A"
  /\ inflight # <<>>
  /\ inflight' = Tail(inflight)
  /\ IF ok /\ outputAudioContext # Null
     THEN /\ Commit(schedule(World, startTimeA(nextStartTime, clock),
                             Head(inflight), clock, chain))
          /\ chain' = Len(sources) + 1
     ELSE /\ Commit(disconnect(onStatusChange(World, "error", nConnect), nConnect, FALSE))
          /\ UNCHANGED chain
  /\ UNCHANGED <<variant, codec, speech, shell, appEnv, clock, conn, sent, resetAt, budget>>

\* handleServerMessage resumed after decodeAudioData (lines 213-228): handlers
\* resume in the order they began to wait.  A failed decode, or a context released
\* meanwhile (line 215 throws), ends in the catch of line 226.
handlerResume(ok) ==
  /\ variant = "A"
  /\ inflight # <<>>
  /\ inflight' = Tail(inflight)
  /\ IF ok /\ outputAudioContext # Null
     THEN /\ Commit(schedule(World, startTimeA(nextStartTime, clock),
                             Head(inflight), clock, chain))
          /\ chain' = Len(sources) + 1
     ELSE UNCHANGED <<fields, devices, appRefs, observed, thenQ, chain>>
  /\ UNCHANGED <<variant, codec, speech, shell, appEnv, clock, conn, sent, resetAt, budget>>

\* the place of a microphone block among the blocks captured for session s so far
\* (0 for a video frame)
blockOf(kind, s) ==
  IF kind = "audio"
  THEN Cardinality({i \in DOMAIN sent : sent[i].kind = "audio" /\ sent[i].to = s})
       + Cardinality({i \in DOMAIN thenQ[s] : thenQ[s][i].kind = "audio"}) + 1
  ELSE 0

\* session.sendRealtimeInput(...) on session s: what the remote end is handed
sendRealtimeInput(w, kind, s) ==
  Append(sent, [kind |-> kind, to |-> s, late |-> s <= w.tornDown,
                block |-> blockOf(kind, s)])

\* sendVideoFrame (lines 180-195)
sendVideoFrame ==
  /\ variant = "A"
  /\ Len(sent) < MaxSends
  /\ sent' = IF session # Null /\ isConnected
             THEN sendRealtimeInput(World, "video", session)
             ELSE sent
  /\ UNCHANGED <<variant, codec, speech, shell, appEnv, fields, devices, appRefs, observed, clock, conn, thenQ, inflight, sched,
                 budget>>

\* processor.onaudioprocess (lines 148-164)
onaudioprocess(p) ==
  /\ variant = "A"
  /\ p \in procLive
  /\ Len(sent) < MaxSends
  /\ sent' = IF session # Null /\ isConnected
             THEN sendRealtimeInput(World, "audio", session)
             ELSE sent
  /\ UNCHANGED <<variant, codec, speech, shell, appEnv, fields, devices, appRefs, observed, clock, conn, thenQ, inflight, sched,
                 budget>>

\* ------------------------------------- LiveClient, sessionPromise (lines 243-406)

\* connect() up to its await (lines 259-298), called in a task that has made the
\* client w0
connectFromB(w0) ==
  /\ variant = "B"
  /\ nConnect < limit.attempts
  /\ LET k == nConnect + 1
         w1 == onStatusChange(w0, "connected", k)
     IN /\ nConnect' = k
        /\ Commit([w1 EXCEPT !.outputAudioContext = k, !.outOpen = @ \cup {k},
                              !.nextStartTime = 0, !.sessionPromise = k])
        /\ conn' = [conn EXCEPT ![k].pc = "await", ![k].tr = "connecting"]
  /\ clock' = 0
  /\ resetAt' = -1
  /\ chain' = 0
  /\ UNCHANGED <<variant, codec, speech, shell, appEnv, inflight, sent, ownerCalls, limit, nDisconnect, nMsg>>

\* the owner calls connect()
connectB == connectFromB(World)

\* one callback chained on the promise of attempt k runs with the session
runCallback(c, k, ws) ==
  IF c.kind = "close"
  THEN <<[ws[1] EXCEPT !.closed = @ \cup {k}], ws[2]>>
  ELSE <<ws[1], Append(ws[2], [kind |-> c.kind, to |-> k,
                               late |-> k <= ws[1].tornDown, block |-> c.block])>>

RECURSIVE runThen_lifo(_, _, _)
\* Faulty variant: the callback chained last runs first
runThen_lifo(q, k, ws) ==
  IF q = <<>> THEN ws
  ELSE runThen_lifo(SubSeq(q, 1, Len(q) - 1), k, runCallback(q[Len(q)], k, ws))

\* the callbacks chained on the promise of attempt k run in the order they were
\* chained: close() (line 310) and sendRealtimeInput (lines 356, 379)
RECURSIVE runThen(_, _, _)
runThen(q, k, ws) ==
  IF q = <<>> THEN ws
  ELSE runThen(Tail(q), k, runCallback(Head(q), k, ws))

\* ai.live.connect resolves: the chained callbacks run, then connect() returns
connectResolveB(k) ==
  /\ variant = "B"
  /\ conn[k].pc = "await" /\ conn[k].tr = "connecting"
  /\ LET ws == runThen(thenQ[k], k, <<World, sent>>)
     IN /\ Commit([ws[1] EXCEPT !.thenQ[k] = <<>>])
        /\ sent' = ws[2]
  /\ conn' = [conn EXCEPT ![k].pc = "done", ![k].tr = "ready"]
  /\ UNCHANGED <<variant, codec, speech, shell, appEnv, clock, inflight, sched, budget>>

\* ai.live.connect rejects: the catch of lines 300-303; what was chained is dropped
connectRejectB(k) ==
  /\ variant = "B"
  /\ conn[k].pc = "await" /\ conn[k].tr = "connecting" /\ ~conn[k].opened
  /\ Commit([onStatusChange(World, "error", k) EXCEPT !.thenQ[k] = <<>>])
  /\ conn' = [conn EXCEPT ![k].pc = caught(steps'), ![k].tr = "failed"]
  /\ UNCHANGED <<variant, codec, speech, shell, appEnv, clock, inflight, sent, sched, budget>>

\* callbacks.onopen (lines 279-282) and startAudioInput up to its await (340-343)
onopenB(k) ==
  /\ variant = "B"
  /\ Alive(k) /\ ~conn[k].opened /\ k \notin closed
  /\ Commit([World EXCEPT !.inputAudioContext = k, !.inOpen = @ \cup {k}])
  /\ conn' = [conn EXCEPT ![k].opened = TRUE, ![k].gum = "pending"]
  /\ UNCHANGED <<variant, codec, speech, shell, appEnv, clock, inflight, sent, sched, budget>>

\* startAudioInput resumed with the stream (lines 343-366); a context released
\* meanwhile makes line 345 throw into the catch of lines 368-370
gumResolveB(k) ==
  /\ variant = "B"
  /\ conn[k].gum = "pending"
  /\ LET w1 == [World EXCEPT !.mediaStream = k, !.micLive = @ \cup {k}]
     IN IF w1.inputAudioContext = Null
        THEN Commit(w1)
        ELSE Commit([w1 EXCEPT !.processor = k,
                               !.procLive = @ \cup {<<k, w1.inputAudioContext>>}])
  /\ conn' = [conn EXCEPT ![k].gum = "done"]
  /\ UNCHANGED <<variant, codec, speech, shell, appEnv, clock, inflight, sent, sched, budget>>

\* getUserMedia rejects: the catch of lines 368-370
gumRejectB(k) ==
  /\ variant = "B"
  /\ conn[k].gum = "pending"
  /\ conn' = [conn EXCEPT ![k].gum = "failed"]
  /\ UNCHANGED <<variant, codec, speech, shell, appEnv, fields, devices, appRefs, observed, thenQ, clock, inflight, sent, sched,
                 budget>>

\* callbacks.onclose (lines 284-287)
oncloseB(k) ==
  /\ variant = "B"
  /\ Alive(k) /\ conn[k].opened
  /\ Commit(disconnect(World, k, FALSE))
  /\ conn' = [conn EXCEPT ![k].ended = TRUE]
  /\ UNCHANGED <<variant, codec, speech, shell, appEnv, clock, inflight, sent, sched, budget>>

\* callbacks.onerror (lines 288-292)
onerrorB(k) ==
  /\ variant = "B"
  /\ Alive(k) /\ conn[k].opened /\ k \notin closed
  /\ Commit(disconnect(onStatusChange(World, "error", k), k, FALSE))
  /\ conn' = [conn EXCEPT ![k].ended = TRUE]
  /\ UNCHANGED <<variant, codec, speech, shell, appEnv, clock, inflight, sent, sched, budget>>

\* Faulty variant: the stale cursor is used
startTimeB_stale(nst, now) == nst

\* the start time line 395 gives the next source
startTimeB(nst, now) == IF now >= nst THEN now ELSE nst

\* handleServerMessage up to its await (lines 388-393): no interruption branch
onmessageB(k, m) ==
  /\ variant = "B"
  /\ Alive(k) /\ conn[k].opened /\ k \notin closed
  /\ nMsg < MaxMsgs
  /\ nMsg' = nMsg + 1
  /\ inflight' = IF m # 0 /\ outputAudioContext # Null
                 THEN Append(inflight, [dur |-> m, n |-> nMsg + 1, k |-> k, cut |-> FALSE])
                 ELSE inflight
  /\ UNCHANGED <<variant, codec, speech, shell, appEnv, fields, devices, appRefs, observed, thenQ, sched, clock, conn, sent,
                 ownerCalls, limit, nConnect, nDisconnect>>

\* handleServerMessage resumed after decodeAudioData (lines 393-403); a failed
\* decode, or a context released meanwhile (line 395 throws), rejects the handler
handlerResumeB(ok) ==
  /\ variant = "B"
  /\ inflight # <<>>
  /\ inflight' = Tail(inflight)
  /\ IF ok /\ outputAudioContext # Null
     THEN /\ Commit(schedule(World, startTimeB(nextStartTime, clock),
                             Head(inflight), clock, chain))
          /\ chain' = Len(sources) + 1
     ELSE UNCHANGED <<fields, devices, appRefs, observed, thenQ, chain>>
  /\ UNCHANGED <<variant, codec, speech, shell, appEnv, clock, conn, sent, resetAt, budget>>

\* sessionPromise.then(session => session.sendRealtimeInput(...)), lines 355-362
\* and 378-385: invoked at once when the promise has resolved, chained while it
\* is pending, never when it has rejected
thenSend(kind) ==
  LET sp == sessionPromise
  IN /\ Len(sent) + Len(thenQ[sp]) < MaxSends
     /\ IF conn[sp].tr = "ready"
        THEN /\ sent' = sendRealtimeInput(World, kind, sp)
             /\ UNCHANGED thenQ
        ELSE /\ thenQ' = IF conn[sp].tr = "connecting"
                         THEN [thenQ EXCEPT ![sp] =
                                 Append(@, [kind |-> kind, block |-> blockOf(kind, sp)])]
                         ELSE thenQ
             /\ UNCHANGED sent

\* sendVideoFrame (lines 373-386)
sendVideoFrameB ==
  /\ variant = "B"
  /\ IF sessionPromise = Null THEN UNCHANGED <<sent, thenQ>> ELSE thenSend("video")
  /\ UNCHANGED <<variant, codec, speech, shell, appEnv, fields, devices, appRefs, observed, clock, conn, inflight, sched, budget>>

\* processor.onaudioprocess (lines 348-363)
onaudioprocessB(p) ==
  /\ variant = "B"
  /\ p \in procLive
  /\ IF sessionPromise = Null THEN UNCHANGED <<sent, thenQ>> ELSE thenSend("audio")
  /\ UNCHANGED <<variant, codec, speech, shell, appEnv, fields, devices, appRefs, observed, clock, conn, inflight, sched, budget>>

\* the output clock advances
Tick(d) ==
  /\ outputAudioContext # Null
  /\ clock + d <= MaxTicks * d
  /\ clock' = clock + d
  /\ UNCHANGED <<variant, codec, speech, shell, appEnv, fields, devices, appRefs, observed, conn, thenQ, inflight, sent, sched,
                 budget>>

\* ------------------------------------------------- App (unnamed/part_002)

\* stopSession (lines 192-209): the frame timer is cleared, then the client is
\* disconnected and forgotten
stopSessionOf(w) ==
  LET w1 == IF w.frameIntervalRef # Null
            THEN [w EXCEPT !.timers = @ \ {w.frameIntervalRef}, !.frameIntervalRef = Null]
            ELSE w
  IN IF w1.liveClientRef # Null
     THEN [disconnect(w1, w1.liveClientRef, FALSE) EXCEPT !.liveClientRef = Null]
     ELSE w1

stopSession ==
  /\ app = "second"
  /\ Commit(stopSessionOf(World))
  /\ UNCHANGED <<variant, codec, speech, shell, appEnv, clock, conn, inflight, sent, sched, budget>>

\* startLiveNavigation up to its await (lines 211-236): a new client is made and
\* its connect() is called
startLiveNavigation(suspended) ==
  /\ app = "second"
  /\ camera # "error"
  /\ LET k == nConnect + 1
         w0 == [stopSessionOf(World) EXCEPT !.liveClientRef = k, !.navPc[k] = "await"]
     IN connectFrom(w0, suspended) \/ connectFromB(w0)

\* stopSession of the first App (part_002 lines 82-95): the frame timer is
\* cleared, the client is disconnected and, once disconnect() has returned,
\* forgotten
stopSessionFirstOf(w) ==
  IF w.liveClientRef = Null THEN clearFrames(w)
  ELSE forget(disconnect(clearFrames(w), w.liveClientRef, FALSE))

\* stopSession of the first App, called by the HUD or by toggleSession
stopSessionFirst ==
  /\ app = "first"
  /\ nDisconnect < limit.disconnects
  /\ nDisconnect' = nDisconnect + 1
  /\ Commit(stopSessionFirstOf(World))
  /\ UNCHANGED <<variant, codec, speech, shell, appEnv, clock, conn, inflight, sent, sched,
                 ownerCalls, limit, nConnect, nMsg>>

\* startSession of the first App up to its await (lines 46-68): a new client is
\* made and its connect() is called
startSession(suspended) ==
  /\ app = "first"
  /\ camera # "error"
  /\ LET k == nConnect + 1
         w0 == [World EXCEPT !.liveClientRef = k, !.navPc[k] = "await"]
     IN connectFrom(w0, suspended) \/ connectFromB(w0)

\* startLiveNavigation (startSession) after connect() has returned (lines 239-246
\* and 71-78): setInterval
startFrames(k) ==
  /\ app # "none"
  /\ navPc[k] = "await" /\ conn[k].pc = "done"
  /\ Commit([World EXCEPT !.frameIntervalRef = k, !.timers = @ \cup {k},
                          !.navPc[k] = "done"])
  /\ UNCHANGED <<variant, codec, speech, shell, appEnv, clock, conn, inflight, sent, sched, budget>>

\* Faulty variant: whatever getScreenshot() returned is sent
frameTick_unchecked ==
  /\ timers # {}
  /\ IF camera # "error" /\ liveClientRef # Null
     THEN /\ nShots < MaxShots
          /\ nShots' = IF camera = "ready" THEN nShots + 1 ELSE nShots
          /\ IF variant = "A"
             THEN /\ sent' = IF session # Null /\ isConnected
                             THEN sendRealtimeInput(World, "video", session)
                             ELSE sent
                  /\ UNCHANGED thenQ
             ELSE IF sessionPromise = Null
                  THEN UNCHANGED <<sent, thenQ>>
                  ELSE thenSend("video")
          /\ UNCHANGED <<variant, codec, speech, shell, app, camera, fields, devices, appRefs, observed,
                         clock, conn, inflight, sched, budget>>
     ELSE UNCHANGED vars

\* the interval callback (lines 239-246, and 71-78 of the first App): one
\* screenshot, sent if there is one
frameTick ==
  /\ timers # {}
  /\ IF camera = "ready" /\ liveClientRef # Null
     THEN /\ nShots < MaxShots
          /\ nShots' = nShots + 1
          /\ IF variant = "A"
             THEN /\ sent' = IF session # Null /\ isConnected
                             THEN sendRealtimeInput(World, "video", session)
                             ELSE sent
                  /\ UNCHANGED thenQ
             ELSE IF sessionPromise = Null
                  THEN UNCHANGED <<sent, thenQ>>
                  ELSE thenSend("video")
          /\ UNCHANGED <<variant, codec, speech, shell, app, camera, fields, devices, appRefs, observed,
                         clock, conn, inflight, sched, budget>>
     ELSE UNCHANGED vars

\* the webcam gets its first frame, loses it, or fails (handleCameraError, 184-188)
cameraChange(c) ==
  /\ app # "none"
  /\ camera # "error" /\ c # camera
  /\ camera' = c
  /\ UNCHANGED <<variant, codec, speech, shell, app, nShots, fields, devices, appRefs, observed, clock,
                 conn, thenQ, inflight, sent, sched, budget>>

\* ------------------------------------------------- App (unnamed/part_001)

\* everything the frame-analysing Apps do not touch
ashore == <<client, codec, speech>>

\* the loop instance or invocation a new call gets
fresh(n) ==
  CHOOSE l \in 1..n : loops[l].pc = "none" /\ \A x \in 1..n : loops[x].pc = "none" => l <= x

\* where navigationLoop waits next from the top of its while (lines 139-152),
\* nav being isNavigatingRef.current: it has returned, or awaits the one-second
\* pause taken without a screenshot, or the analysis of a frame
top(nav) ==
  IF ~nav THEN "done" ELSE IF camera # "ready" THEN "pause" ELSE "analyzing"

\* navigationLoop instance l runs from the top of its while to its next await
iterate(l, nav) ==
  /\ top(nav) = "analyzing" => nAnalyses < MaxAnalyses
  /\ loops' = [loops EXCEPT ![l] = [pc |-> top(nav), i |-> 0]]
  /\ nAnalyses' = IF top(nav) = "analyzing" THEN nAnalyses + 1 ELSE nAnalyses

\* toggleNavigation (lines 191-202): navigation is stopped, or
\* startLiveNavigation is called and runs up to its await import (lines 120-128)
toggleNavigation ==
  /\ app = "continuous"
  /\ IF mode = "NAVIGATING"
     THEN /\ isNavigatingRef' = FALSE
          /\ mode' = "IDLE"
          /\ UNCHANGED loops
     ELSE /\ camera # "error"
          /\ \E l \in 1..MaxLoops : loops[l].pc = "none"
          /\ loops' = [loops EXCEPT ![fresh(MaxLoops)].pc = "import"]
          /\ UNCHANGED <<isNavigatingRef, mode>>
  /\ UNCHANGED <<ashore, modeRef, navLoopTimer, navTimers, nAnalyses, spoken>>

\* stopNavigationAndSession (lines 181-189)
stopNavigationAndSession ==
  /\ app = "continuous"
  /\ isNavigatingRef' = FALSE
  /\ mode' = "IDLE"
  /\ UNCHANGED <<ashore, modeRef, navLoopTimer, navTimers, loops, nAnalyses, spoken>>

\* startLiveNavigation resumed after the import (lines 130-177): the flag is
\* set and navigationLoop() is called, which runs to its first await
startLiveNavigationResumed(l) ==
  /\ app = "continuous"
  /\ loops[l].pc = "import"
  /\ isNavigatingRef' = TRUE
  /\ mode' = "NAVIGATING"
  /\ iterate(l, TRUE)
  /\ UNCHANGED <<ashore, modeRef, navLoopTimer, navTimers, spoken>>

\* navigationLoop resumed by analyzeForNavigation (lines 154-169): the guidance is
\* spoken if the flag is set, then the first 100 ms wait is taken; a rejection
\* is caught and followed by a pause (lines 166-169)
guidanceReturns(l, ok) ==
  /\ app = "continuous"
  /\ loops[l].pc = "analyzing"
  /\ spoken' = IF ok /\ isNavigatingRef THEN spoken + 1 ELSE spoken
  /\ IF ~ok THEN loops' = [loops EXCEPT ![l].pc = "pause"] /\ UNCHANGED nAnalyses
     ELSE IF isNavigatingRef
          THEN loops' = [loops EXCEPT ![l] = [pc |-> "wait", i |-> 0]] /\ UNCHANGED nAnalyses
          ELSE iterate(l, isNavigatingRef)
  /\ UNCHANGED <<ashore, mode, modeRef, isNavigatingRef, navLoopTimer, navTimers>>

\* navigationLoop resumed by a 100 ms wait (line 162): the next wait is taken
\* while fewer than WaitTicks have passed and the flag is set
waitTick(l) ==
  /\ app = "continuous"
  /\ loops[l].pc = "wait"
  /\ IF loops[l].i + 1 < WaitTicks /\ isNavigatingRef
     THEN loops' = [loops EXCEPT ![l].i = @ + 1] /\ UNCHANGED nAnalyses
     ELSE iterate(l, isNavigatingRef)
  /\ UNCHANGED <<ashore, mode, modeRef, isNavigatingRef, navLoopTimer, navTimers, spoken>>

\* navigationLoop resumed by a pause (lines 142, 148, 168): back to the while
pauseDone(l) ==
  /\ app = "continuous"
  /\ loops[l].pc = "pause"
  /\ iterate(l, isNavigatingRef)
  /\ UNCHANGED <<ashore, mode, modeRef, isNavigatingRef, navLoopTimer, navTimers, spoken>>

\* ------------------------------------------------- App.tsx

\* what analyzeNavigationFrame resolves with
SafetyInfos == {"info", "QUOTA_EXCEEDED"}

\* runNavLoop up to its await or its end (lines 172-177, 190-194), ref being
\* modeRef.current and pending the timeouts that are set: it returns at once, or
\* awaits the analysis of a screenshot, or without a screenshot sets the next
\* timeout
runNavLoop(ref, pending) ==
  /\ \E l \in 1..MaxRuns : loops[l].pc = "none"
  /\ LET l == fresh(MaxRuns)
     IN IF ref # "NAVIGATING" \/ camera = "error"
        THEN /\ loops' = [loops EXCEPT ![l].pc = "done"]
             /\ navTimers' = pending
             /\ UNCHANGED <<navLoopTimer, nAnalyses>>
        ELSE IF camera = "ready"
        THEN /\ nAnalyses < MaxAnalyses
             /\ nAnalyses' = nAnalyses + 1
             /\ loops' = [loops EXCEPT ![l].pc = "analyzing"]
             /\ navTimers' = pending
             /\ UNCHANGED navLoopTimer
        ELSE /\ loops' = [loops EXCEPT ![l].pc = "done"]
             /\ navLoopTimer' = l
             /\ navTimers' = pending \cup {l}
             /\ UNCHANGED nAnalyses

\* handleStop (lines 62-71)
handleStop ==
  /\ app = "tsx"
  /\ navTimers' = navTimers \ {navLoopTimer}
  /\ navLoopTimer' = Null
  /\ mode' = "IDLE"
  /\ UNCHANGED <<ashore, modeRef, isNavigatingRef, loops, nAnalyses, spoken>>

\* handleStartNav (lines 73-82)
handleStartNav ==
  /\ app = "tsx"
  /\ camera # "error"
  /\ mode' = "NAVIGATING"
  /\ UNCHANGED <<ashore, modeRef, isNavigatingRef, navLoopTimer, navTimers, loops,
                 nAnalyses, spoken>>

\* the effects of a render with a new mode: the cleanup of lines 201-203 clears
\* the timeout, the effect of lines 36-38 copies the mode to modeRef, the effect
\* of lines 197-200 calls runNavLoop() if the mode is NAVIGATING
effects ==
  /\ app = "tsx"
  /\ mode # modeRef
  /\ modeRef' = mode
  /\ IF mode = "NAVIGATING"
     THEN runNavLoop("NAVIGATING", navTimers \ {navLoopTimer})
     ELSE /\ navTimers' = navTimers \ {navLoopTimer}
          /\ UNCHANGED <<navLoopTimer, loops, nAnalyses>>
  /\ UNCHANGED <<ashore, mode, isNavigatingRef, spoken>>

\* the timeout t set at line 193 fires: runNavLoop()
navTimeout(t) ==
  /\ app = "tsx"
  /\ t \in navTimers
  /\ runNavLoop(modeRef, navTimers \ {t})
  /\ UNCHANGED <<ashore, mode, modeRef, isNavigatingRef, spoken>>

\* runNavLoop resumed by analyzeNavigationFrame (lines 178-194): nothing if
\* modeRef is not NAVIGATING; handleStop() on an exceeded quota; else the result
\* is displayed and spoken and the next timeout is set
safetyInfoReturns(l, safetyInfo) ==
  /\ app = "tsx"
  /\ loops[l].pc = "analyzing"
  /\ loops' = [loops EXCEPT ![l].pc = "done"]
  /\ IF modeRef # "NAVIGATING"
     THEN UNCHANGED <<mode, navLoopTimer, navTimers, spoken>>
     ELSE IF safetyInfo = "QUOTA_EXCEEDED"
     THEN /\ navTimers' = navTimers \ {navLoopTimer}
          /\ navLoopTimer' = Null
          /\ mode' = "IDLE"
          /\ UNCHANGED spoken
     ELSE /\ spoken' = spoken + 1
          /\ navLoopTimer' = l
          /\ navTimers' = navTimers \cup {l}
          /\ UNCHANGED mode
  /\ UNCHANGED <<ashore, modeRef, isNavigatingRef, nAnalyses>>

\* ------------------------------------------------- hooks/useSpeechRecognition.ts

\* the error kinds a recognition reports; the first two are the ones line 94 names
Errors == {"aborted", "network", "no-speech", "not-allowed"}

\* everything the hook does not touch
apart == <<client, codec, shell>>

\* lines 31-106 of startListening: a recognition object is made with its handlers,
\* stored in recognitionRef and started
newRecognition ==
  /\ \E r \in Recognitions : recog[r] = "none"
  /\ LET r == CHOOSE x \in Recognitions :
                 recog[x] = "none" /\ \A y \in Recognitions : recog[y] = "none" => x <= y
     IN /\ recognitionRef' = r
        /\ recog' = [recog EXCEPT ![r] = "starting"]

\* the owner calls startListening (lines 21-111) of the last render
startListening ==
  /\ isMounted
  /\ ~isListening
  /\ newRecognition
  /\ UNCHANGED <<apart, isListening, isMounted, retryTimeoutRef, timeouts, nTimeouts>>

\* recognition.onstart (lines 37-40)
onstart(r) ==
  /\ recog[r] = "starting"
  /\ recog' = [recog EXCEPT ![r] = "started"]
  /\ isListening' = IF isMounted THEN TRUE ELSE isListening
  /\ UNCHANGED <<apart, recognitionRef, isMounted, retryTimeoutRef, timeouts, nTimeouts>>

\* recognition.onend (lines 42-45)
onend(r) ==
  /\ recog[r] \in {"starting", "started", "failed"}
  /\ recog' = [recog EXCEPT ![r] = "ended"]
  /\ isListening' = IF isMounted THEN FALSE ELSE isListening
  /\ UNCHANGED <<apart, recognitionRef, isMounted, retryTimeoutRef, timeouts, nTimeouts>>

\* recognition.onerror (lines 89-103): for 'aborted' and 'network' the pending
\* retry is cleared and a new one is set
onerrorSpeech(r, error) ==
  /\ recog[r] \in {"starting", "started"}
  /\ recog' = [recog EXCEPT ![r] = "failed"]
  /\ isListening' = IF isMounted THEN FALSE ELSE isListening
  /\ IF error \in {"aborted", "network"}
     THEN /\ nTimeouts' = nTimeouts + 1
          /\ retryTimeoutRef' = nTimeouts + 1
          /\ timeouts' = (timeouts \ {retryTimeoutRef}) \cup {nTimeouts + 1}
     ELSE UNCHANGED <<retryTimeoutRef, timeouts, nTimeouts>>
  /\ UNCHANGED <<apart, recognitionRef, isMounted>>

\* the retry timeout t fires (lines 97-101): startListening as the render that
\* made the failed recognition defined it, whose isListening was false
retryFires(t) ==
  /\ t \in timeouts
  /\ timeouts' = timeouts \ {t}
  /\ IF isMounted /\ recognitionRef = Null
     THEN newRecognition
     ELSE UNCHANGED <<recognitionRef, recog>>
  /\ UNCHANGED <<apart, isListening, isMounted, retryTimeoutRef, nTimeouts>>

\* stopListening (lines 113-121)
stopListening ==
  /\ isMounted
  /\ timeouts' = timeouts \ {retryTimeoutRef}
  /\ recognitionRef' = Null
  /\ isListening' = FALSE
  /\ UNCHANGED <<apart, isMounted, retryTimeoutRef, recog, nTimeouts>>

\* the effect's cleanup (lines 12-18): the recognition is aborted, the retry
\* cleared
unmount ==
  /\ isMounted
  /\ isMounted' = FALSE
  /\ timeouts' = timeouts \ {retryTimeoutRef}
  /\ UNCHANGED <<apart, isListening, recognitionRef, retryTimeoutRef, recog, nTimeouts>>

\* ------------------------------------------------- services/audioUtils.ts

\* A sample is the fraction num / den (den > 0); each of these is a float exactly.
Samples ==
  {[num |-> 0, den |-> 1], [num |-> 1, den |-> 1], [num |-> -1, den |-> 1],
   [num |-> 1, den |-> 2], [num |-> -1, den |-> 2], [num |-> 3, den |-> 4],
   [num |-> 3, den |-> 2], [num |-> -3, den |-> 2],
   [num |-> 32769, den |-> 1073741824], [num |-> -32769, den |-> 1073741824]}

ByteValues == {0, 1, 77, 128, 251, 255}

SeqsUpTo(S, n) == UNION {[1..m -> S] : m \in 0..n}

\* the integer part, as a store into an Int16Array takes it
Trunc(n, d) == IF n >= 0 THEN n \div d ELSE -((-n) \div d)

\* a store into an Int16Array wraps modulo 2^16
ToInt16(v) == ((v + 32768) % 65536) - 32768

\* Faulty variant: the sample is scaled as it comes
clamp_none(x) == x

\* line 51: Math.max(-1, Math.min(1, x))
clamp(x) ==
  IF x.num > x.den THEN [num |-> 1, den |-> 1]
  ELSE IF x.num < -x.den THEN [num |-> -1, den |-> 1]
  ELSE x

\* lines 51-53: int16Array[i] = s < 0 ? s * 0x8000 : s * 0x7FFF
sampleToInt16(x) ==
  LET s == clamp(x)
  IN ToInt16(IF s.num < 0 THEN Trunc(s.num * 32768, s.den)
             ELSE Trunc(s.num * 32767, s.den))

RECURSIVE bufferOf(_)
\* line 57: the bytes of the Int16Array's buffer, low byte first
bufferOf(int16Array) ==
  IF int16Array = <<>> THEN <<>>
  ELSE LET u == (Head(int16Array) + 65536) % 65536
       IN <<u % 256, u \div 256>> \o bufferOf(Tail(int16Array))

\* the character (its code) of a 6-bit value in the base64 alphabet
B64Code(v) ==
  IF v < 26 THEN 65 + v
  ELSE IF v < 52 THEN 71 + v
  ELSE IF v < 62 THEN v - 4
  ELSE IF v = 62 THEN 43 ELSE 47

\* the 6-bit value of a character, -1 for a character outside the alphabet
B64Value(c) ==
  IF c \in 65..90 THEN c - 65
  ELSE IF c \in 97..122 THEN c - 71
  ELSE IF c \in 48..57 THEN c + 4
  ELSE IF c = 43 THEN 62
  ELSE IF c = 47 THEN 63 ELSE -1

RECURSIVE btoa(_)
\* btoa: three characters of the binary string give four of the text, '=' pads
btoa(binary) ==
  LET n == Len(binary)
  IN IF n = 0 THEN <<>>
     ELSE IF n = 1
     THEN <<B64Code(binary[1] \div 4), B64Code((binary[1] % 4) * 16), 61, 61>>
     ELSE IF n = 2
     THEN <<B64Code(binary[1] \div 4),
            B64Code((binary[1] % 4) * 16 + binary[2] \div 16),
            B64Code((binary[2] % 16) * 4), 61>>
     ELSE <<B64Code(binary[1] \div 4),
            B64Code((binary[1] % 4) * 16 + binary[2] \div 16),
            B64Code((binary[2] % 16) * 4 + binary[3] \div 64),
            B64Code(binary[3] % 64)>> \o btoa(SubSeq(binary, 4, n))

RECURSIVE atobGroups(_)
atobGroups(d) ==
  LET n == Len(d)
  IN IF n < 2 THEN <<>>
     ELSE IF n = 2
     THEN <<B64Value(d[1]) * 4 + B64Value(d[2]) \div 16>>
     ELSE IF n = 3
     THEN <<B64Value(d[1]) * 4 + B64Value(d[2]) \div 16,
            (B64Value(d[2]) % 16) * 16 + B64Value(d[3]) \div 4>>
     ELSE <<B64Value(d[1]) * 4 + B64Value(d[2]) \div 16,
            (B64Value(d[2]) % 16) * 16 + B64Value(d[3]) \div 4,
            (B64Value(d[3]) % 4) * 64 + B64Value(d[4])>>
          \o atobGroups(SubSeq(d, 5, n))

\* atob: the padding is dropped, a character outside the alphabet or a length of
\* 1 modulo 4 throws
atob(data) ==
  LET n == Len(data)
      d == IF n > 0 /\ n % 4 = 0 /\ data[n] = 61
           THEN IF data[n - 1] = 61 THEN SubSeq(data, 1, n - 2) ELSE SubSeq(data, 1, n - 1)
           ELSE data
  IN IF Len(d) % 4 = 1 \/ \E i \in DOMAIN d : B64Value(d[i]) < 0
     THEN [thrown |-> "InvalidCharacterError", v |-> <<>>]
     ELSE [thrown |-> "none", v |-> atobGroups(d)]

\* lines 56-64: the bytes, one character each (String.fromCharCode), through btoa
bytesToBase64(b) == btoa([i \in DOMAIN b |-> b[i]])

\* float32ToB64PCM (lines 45-65)
float32ToB64PCM(f) == bytesToBase64(bufferOf([i \in DOMAIN f |-> sampleToInt16(f[i])]))

\* /\s/
IsNotSpace(c) == c \notin {9, 10, 11, 12, 13, 32}

\* Faulty variant: the character codes are taken as 7-bit
base64ToUint8Array_ascii(text) ==
  LET binaryString == atob(SelectSeq(text, IsNotSpace))
  IN [binaryString EXCEPT !.v = [i \in DOMAIN @ |-> @[i] % 128]]

\* base64ToUint8Array (lines 6-14)
base64ToUint8Array(text) ==
  LET binaryString == atob(SelectSeq(text, IsNotSpace))
  IN [binaryString EXCEPT !.v = [i \in DOMAIN @ |-> @[i] % 256]]

\* dataView.getInt16(byteOffset, true)
getInt16(data, byteOffset) ==
  LET u == data[byteOffset + 1] + 256 * data[byteOffset + 2]
  IN IF u >= 32768 THEN u - 65536 ELSE u

\* line 35: int16 < 0 ? int16 / 32768.0 : int16 / 32767.0
normalize(int16) ==
  IF int16 < 0 THEN [num |-> int16, den |-> 32768] ELSE [num |-> int16, den |-> 32767]

\* Faulty variant: the loop runs over the whole samples only
decodeAudioData_truncating(data) ==
  LET length == Len(data) \div 2
  IN IF length = 0
     THEN [thrown |-> "NotSupportedError", channelData |-> <<>>]
     ELSE [thrown |-> "none",
           channelData |-> [i \in 1..length |-> normalize(getInt16(data, 2 * (i - 1)))]]

\* decodeAudioData (lines 20-39).  numSamples is byteLength / 2, a half-integer for
\* an odd length: createBuffer takes its integer part and throws for 0; the loop
\* runs while i < numSamples, and getInt16 throws when it would read past the end.
decodeAudioData(data) ==
  LET byteLength == Len(data)
      length == byteLength \div 2
  IN IF length = 0
     THEN [thrown |-> "NotSupportedError", channelData |-> <<>>]
     ELSE IF \E i \in 0..byteLength : 2 * i < byteLength /\ 2 * i + 2 > byteLength
     THEN [thrown |-> "RangeError", channelData |-> <<>>]
     ELSE [thrown |-> "none",
           channelData |-> [i \in 1..length |-> normalize(getInt16(data, 2 * (i - 1)))]]

\* float32ToB64PCM on the samples of one onaudioprocess event
Float32ToB64PCM ==
  /\ stage = "samples"
  /\ pcm' = bufferOf([i \in DOMAIN float32Array |-> sampleToInt16(float32Array[i])])
  /\ base64' = float32ToB64PCM(float32Array)
  /\ stage' = "text"
  /\ UNCHANGED <<client, speech, shell, float32Array, bytes, audioBuffer>>

\* the byte-to-text path of lines 56-64 on bytes of any length
BytesToBase64 ==
  /\ stage = "pcm"
  /\ base64' = bytesToBase64(pcm)
  /\ stage' = "text"
  /\ UNCHANGED <<client, speech, shell, float32Array, pcm, bytes, audioBuffer>>

Base64ToUint8Array ==
  /\ stage = "text"
  /\ bytes' = base64ToUint8Array(base64)
  /\ stage' = "bytes"
  /\ UNCHANGED <<client, speech, shell, float32Array, pcm, base64, audioBuffer>>

DecodeAudioData ==
  /\ stage = "bytes" /\ bytes.thrown = "none"
  /\ audioBuffer' = decodeAudioData(bytes.v)
  /\ stage' = "buffer"
  /\ UNCHANGED <<client, speech, shell, float32Array, pcm, base64, bytes>>

InitConn == [k \in Attempts |->
               [pc |-> "idle", tr |-> "none", opened |-> FALSE, ended |-> FALSE,
                gum |-> "none"]]

InitCommon ==
  /\ session = Null /\ sessionPromise = Null /\ isConnected = FALSE
  /\ inputAudioContext = Null /\ outputAudioContext = Null
  /\ nextStartTime = 0 /\ audioQueue = <<>>
  /\ mediaStream = Null /\ processor = Null
  /\ clock = 0 /\ conn = InitConn /\ thenQ = [k \in Attempts |-> <<>>]
  /\ inflight = <<>>
  /\ closed = {} /\ outOpen = {} /\ inOpen = {} /\ micLive = {} /\ procLive = {}
  /\ statusLog = <<>> /\ sources = <<>> /\ sent = <<>>
  /\ tornDown = 0 /\ steps = <<>> /\ resetAt = -1 /\ chain = 0
  /\ nConnect = 0 /\ nDisconnect = 0 /\ nMsg = 0

\* no App component: the client's owner is anything that calls it
InitOwner ==
  /\ app = "none" /\ liveClientRef = Null /\ frameIntervalRef = Null /\ timers = {}
  /\ navPc = [k \in Attempts |-> "idle"]
  /\ camera = "starting" /\ nShots = 0

\* the hook at rest
InitHook ==
  /\ isListening = FALSE /\ recognitionRef = Null /\ isMounted = FALSE
  /\ retryTimeoutRef = Null /\ timeouts = {}
  /\ recog = [r \in Recognitions |-> "none"] /\ nTimeouts = 0

\* no navigation asked for yet
InitShell ==
  /\ mode = "IDLE" /\ modeRef = "IDLE" /\ isNavigatingRef = FALSE
  /\ navLoopTimer = Null /\ navTimers = {}
  /\ loops = [l \in Loops |-> [pc |-> "none", i |-> 0]]
  /\ nAnalyses = 0 /\ spoken = 0

\* the codec at rest
InitCodec ==
  /\ stage = "idle" /\ float32Array = <<>> /\ pcm = <<>> /\ base64 = <<>>
  /\ bytes = [thrown |-> "none", v |-> <<>>]
  /\ audioBuffer = [thrown |-> "none", channelData |-> <<>>]

\* the session's life: the owner's calls, the transport's events, the microphone
Lifecycle ==
  \/ \E suspended \in BOOLEAN : connect(suspended)
  \/ Disconnect
  \/ \E k \in Attempts :
        \/ resumeDone(k)
        \/ connectResolve(k)
        \/ connectReject(k)
        \/ onopen(k)
        \/ gumResolve(k)
        \/ gumReject(k)
        \/ onclose(k)
        \/ onerror(k)

\* outbound media
Outbound ==
  \/ sendVideoFrame
  \/ \E p \in procLive : onaudioprocess(p)

\* inbound audio and the output clock
Playback ==
  \/ \E k \in Attempts, m \in {0} \cup Durations : onmessage(k, m)
  \/ \E ok \in BOOLEAN : handlerResume(ok)
  \/ \E d \in TickSteps : Tick(d)

LifecycleB ==
  \/ connectB
  \/ \E k \in Attempts :
        \/ connectResolveB(k)
        \/ connectRejectB(k)
        \/ onopenB(k)
        \/ gumResolveB(k)
        \/ gumRejectB(k)
        \/ oncloseB(k)
        \/ onerrorB(k)

OutboundB ==
  \/ sendVideoFrameB
  \/ \E p \in procLive : onaudioprocessB(p)

PlaybackB ==
  \/ \E k \in Attempts, m \in {0} \cup Durations : onmessageB(k, m)
  \/ \E ok \in BOOLEAN : handlerResumeB(ok)

\* The life of a session and its outbound media: an owner whose status callback
\* calls disconnect() or does not.
InitA ==
  /\ variant = "A" /\ InitCommon /\ InitShell /\ InitOwner /\ InitHook /\ InitCodec
  /\ ownerCalls \in 0..MaxReenter
  /\ limit = [attempts |-> MaxAttempts, disconnects |-> MaxDisconnects]

NextA == Lifecycle \/ Outbound

SpecA == InitA /\ [][NextA]_vars

\* The same for the sessionPromise variant.
InitB ==
  /\ variant = "B" /\ InitCommon /\ InitShell /\ InitOwner /\ InitHook /\ InitCodec
  /\ ownerCalls \in 0..MaxReenter
  /\ limit = [attempts |-> MaxAttempts, disconnects |-> MaxDisconnects]

NextB == Disconnect \/ LifecycleB \/ OutboundB

SpecB == InitB /\ [][NextB]_vars

\* The playback scheduler under the session's life.
InitPlay ==
  /\ variant \in {"A", "B"} /\ InitCommon /\ InitShell /\ InitOwner /\ InitHook /\ InitCodec
  /\ ownerCalls = 0
  /\ limit = [attempts |-> PlayAttempts, disconnects |-> PlayDisconnects]

\* The transport stays up and the microphone prompt stays unanswered: every other
\* way a session ends runs the same disconnect() the owner's call runs.
PlayLifecycle ==
  \/ \E suspended \in BOOLEAN : connect(suspended)
  \/ Disconnect
  \/ \E k \in Attempts :
        \/ resumeDone(k)
        \/ connectResolve(k)
        \/ onopen(k)

PlayLifecycleB ==
  \/ connectB
  \/ \E k \in Attempts :
        \/ connectResolveB(k)
        \/ onopenB(k)

NextPlay == PlayLifecycle \/ Playback \/ PlayLifecycleB \/ PlaybackB

SpecPlay == InitPlay /\ [][NextPlay]_vars

\* One session of the isConnected variant with its playback, up to the way it ends.
InitFault ==
  /\ variant = "A" /\ InitCommon /\ InitShell /\ InitOwner /\ InitHook /\ InitCodec
  /\ ownerCalls \in 0..MaxReenter
  /\ limit = [attempts |-> OneAttempt, disconnects |-> OneAttempt]

NextFault == Lifecycle \/ Playback

SpecFault == InitFault /\ [][NextFault]_vars

\* One session of either variant with its outbound media.
InitOne ==
  /\ variant \in {"A", "B"} /\ InitCommon /\ InitShell /\ InitOwner /\ InitHook /\ InitCodec
  /\ ownerCalls \in 0..MaxReenter
  /\ limit = [attempts |-> OneAttempt, disconnects |-> OneAttempt]

NextOne == Lifecycle \/ Outbound \/ LifecycleB \/ OutboundB

SpecOne == InitOne /\ [][NextOne]_vars

\* what the transport, the microphone and the output clock do to a client the App
\* owns
Transport ==
  \/ \E k \in Attempts :
        \/ resumeDone(k)
        \/ connectResolve(k)
        \/ connectReject(k)
        \/ onopen(k)
        \/ gumResolve(k)
        \/ gumReject(k)
        \/ onclose(k)
        \/ onerror(k)
  \/ \E p \in procLive : onaudioprocess(p)

TransportB ==
  \/ \E k \in Attempts :
        \/ connectResolveB(k)
        \/ connectRejectB(k)
        \/ onopenB(k)
        \/ gumResolveB(k)
        \/ gumRejectB(k)
        \/ oncloseB(k)
        \/ onerrorB(k)
  \/ \E p \in procLive : onaudioprocessB(p)

\* The App's live navigation: one session, its frame timer and the webcam.
InitApp ==
  /\ variant \in {"A", "B"} /\ InitCommon /\ InitShell /\ InitHook /\ InitCodec
  /\ app = "second" /\ liveClientRef = Null /\ frameIntervalRef = Null /\ timers = {}
  /\ navPc = [k \in Attempts |-> "idle"]
  /\ camera = "starting" /\ nShots = 0
  /\ ownerCalls = 0
  /\ limit = [attempts |-> OneAttempt, disconnects |-> 0]

NextApp ==
  \/ \E suspended \in BOOLEAN : startLiveNavigation(suspended)
  \/ \E k \in Attempts : startFrames(k)
  \/ frameTick
  \/ stopSession
  \/ \E c \in {"starting", "ready", "error"} : cameraChange(c)
  \/ Transport
  \/ TransportB

SpecApp == InitApp /\ [][NextApp]_vars

\* The first App of part_002: one session, its frame timer and the webcam, with a
\* status callback that calls stopSession().
InitFirst ==
  /\ variant \in {"A", "B"} /\ InitCommon /\ InitShell /\ InitHook /\ InitCodec
  /\ app = "first" /\ liveClientRef = Null /\ frameIntervalRef = Null /\ timers = {}
  /\ navPc = [k \in Attempts |-> "idle"]
  /\ camera = "starting" /\ nShots = 0
  /\ ownerCalls = 0
  /\ limit = [attempts |-> OneAttempt, disconnects |-> MaxStops]

NextFirst ==
  \/ \E suspended \in BOOLEAN : startSession(suspended)
  \/ \E k \in Attempts : startFrames(k)
  \/ frameTick
  \/ stopSessionFirst
  \/ \E c \in {"starting", "ready", "error"} : cameraChange(c)
  \/ Transport
  \/ TransportB

SpecFirst == InitFirst /\ [][NextFirst]_vars

\* The continuous-navigation App of part_001 and its webcam.
InitNav ==
  /\ variant = "A" /\ InitCommon /\ InitShell /\ InitHook /\ InitCodec
  /\ app = "continuous" /\ liveClientRef = Null /\ frameIntervalRef = Null /\ timers = {}
  /\ navPc = [k \in Attempts |-> "idle"]
  /\ camera = "starting" /\ nShots = 0
  /\ ownerCalls = 0
  /\ limit = [attempts |-> 0, disconnects |-> 0]

NextNav ==
  \/ toggleNavigation
  \/ stopNavigationAndSession
  \/ \E l \in 1..MaxLoops :
        \/ startLiveNavigationResumed(l)
        \/ \E ok \in BOOLEAN : guidanceReturns(l, ok)
        \/ waitTick(l)
        \/ pauseDone(l)
  \/ \E c \in {"starting", "ready", "error"} : cameraChange(c)

SpecNav == InitNav /\ [][NextNav]_vars

\* The App of App.tsx: its navigation loop, its renders and its webcam.
InitTsx ==
  /\ variant = "A" /\ InitCommon /\ InitShell /\ InitHook /\ InitCodec
  /\ app = "tsx" /\ liveClientRef = Null /\ frameIntervalRef = Null /\ timers = {}
  /\ navPc = [k \in Attempts |-> "idle"]
  /\ camera = "starting" /\ nShots = 0
  /\ ownerCalls = 0
  /\ limit = [attempts |-> 0, disconnects |-> 0]

NextTsx ==
  \/ handleStartNav
  \/ handleStop
  \/ effects
  \/ \E t \in Loops : navTimeout(t)
  \/ \E l \in Loops, safetyInfo \in SafetyInfos : safetyInfoReturns(l, safetyInfo)
  \/ \E c \in {"starting", "ready", "error"} : cameraChange(c)

SpecTsx == InitTsx /\ [][NextTsx]_vars

\* The speech recognition hook, mounted, with its owner and the recognition
\* service.
InitSpeech ==
  /\ variant = "A" /\ InitCommon /\ InitShell /\ InitOwner /\ InitCodec
  /\ ownerCalls = 0
  /\ limit = [attempts |-> 0, disconnects |-> 0]
  /\ isListening = FALSE /\ recognitionRef = Null /\ isMounted = TRUE
  /\ retryTimeoutRef = Null /\ timeouts = {}
  /\ recog = [r \in Recognitions |-> "none"] /\ nTimeouts = 0

NextSpeech ==
  \/ startListening
  \/ stopListening
  \/ unmount
  \/ \E r \in Recognitions :
        \/ onstart(r)
        \/ onend(r)
        \/ \E error \in Errors : onerrorSpeech(r, error)
  \/ \E t \in Recognitions : retryFires(t)

SpecSpeech == InitSpeech /\ [][NextSpeech]_vars

\* One pass through the codec: samples of the microphone, or bytes of any length,
\* to text, back to bytes and to an audio buffer.
InitCodecPass ==
  /\ variant = "A" /\ InitCommon /\ InitShell /\ InitOwner /\ InitHook
  /\ ownerCalls = 0
  /\ limit = [attempts |-> 0, disconnects |-> 0]
  /\ base64 = <<>>
  /\ bytes = [thrown |-> "none", v |-> <<>>]
  /\ audioBuffer = [thrown |-> "none", channelData |-> <<>>]
  /\ \/ /\ stage = "samples"
        /\ float32Array \in SeqsUpTo(Samples, MaxSamples)
        /\ pcm = <<>>
     \/ /\ stage = "pcm"
        /\ float32Array = <<>>
        /\ pcm \in SeqsUpTo(ByteValues, MaxBytes)

NextCodec == Float32ToB64PCM \/ BytesToBase64 \/ Base64ToUint8Array \/ DecodeAudioData

SpecCodec == InitCodecPass /\ [][NextCodec]_vars

\* ------------------------------------------------------------------ claims

TerminalCount(k) ==
  Cardinality({i \in DOMAIN statusLog : statusLog[i].a = k /\ statusLog[i].s \in Terminal})

\* the events that end attempt k: its transport failing to open, its onClose or
\* onError, a disconnect() of the owner
EndEvents(k) ==
  nDisconnect + (IF conn[k].ended THEN 1 ELSE 0) + (IF conn[k].tr = "failed" THEN 1 ELSE 0)

\* every pending asynchronous step of the client has settled
Settled ==
  /\ \A k \in Attempts : conn[k].pc \in {"idle", "done"} /\ conn[k].gum # "pending"
  /\ inflight = <<>>

\* the client holds nothing
Released ==
  /\ session = Null /\ sessionPromise = Null /\ ~isConnected
  /\ mediaStream = Null /\ processor = Null
  /\ inputAudioContext = Null /\ outputAudioContext = Null
  /\ audioQueue = <<>>

\* C1: of a connect() attempt that one event has ended (the transport failed to
\* open, onError, onClose or a disconnect() of the owner), the owner's status
\* callback has received exactly one terminal status: 'disconnected' or 'error'.
\* (Stated for an owner whose callback does not call back into the client.)
C1_ExactlyOneTerminalStatus ==
  (ownerCalls = 0 /\ nConnect = 1 /\ EndEvents(1) = 1) => TerminalCount(1) = 1

\* C2: a disconnect() call on a client that a disconnect() has already torn down
\* delivers no status callback and changes no field.
C2_SecondDisconnectIsSilent ==
  [][(nDisconnect' = nDisconnect + 1 /\ nDisconnect >= 1 /\ Released /\ ownerCalls = 0)
       => (statusLog' = statusLog /\ fields' = fields)]_vars

\* C3: once disconnect() has run after the last connect() and every pending
\* asynchronous step has settled, the client holds no microphone stream, no script
\* processor, no input audio context and no output audio context.
C3_NothingHeldAfterDisconnect ==
  (nConnect > 0 /\ tornDown = nConnect /\ Settled)
    => (mediaStream = Null /\ processor = Null
        /\ inputAudioContext = Null /\ outputAudioContext = Null)

\* C4: a disconnect() call made from inside a status callback of the same client
\* delivers no status callback.
C4_NestedDisconnectIsSilent ==
  \A i \in DOMAIN statusLog : ~statusLog[i].nested

\* C5: session.sendRealtimeInput is never invoked, by sendVideoFrame or by the
\* microphone callback, on a session whose teardown had begun before the call.
C5_NoSendAfterTeardown ==
  \A i \in DOMAIN sent : ~sent[i].late

\* C6: the instance never holds two transports or two output audio contexts.
LiveTransports == {k \in Attempts : Alive(k) /\ k \notin closed}
C6_AtMostOneSession ==
  Cardinality(outOpen) <= 1 /\ Cardinality(LiveTransports) <= 1

\* the steps the playback claims speak of
IsInterruption == \E k \in Attempts : onmessage(k, 0)
IsSessionStart == (\E s \in BOOLEAN : connect(s)) \/ (\E k \in Attempts : resumeDone(k))
                  \/ connectB
IsScheduled == Len(sources') = Len(sources) + 1
Scheduled == sources'[Len(sources')]
End(i) == sources[i].start + sources[i].dur

\* C7: nextStartTime never decreases in a step that is not the handling of an
\* interruption (nor the start of a session, which initialises it); and right after
\* an interruption's reset it is at least the output clock's current time.
C7_CursorMonotonic ==
  [][/\ (~IsInterruption /\ ~IsSessionStart) => nextStartTime' >= nextStartTime
     /\ (IsInterruption /\ outputAudioContext' # Null) => nextStartTime' >= clock']_vars

\* an interruption has just lowered the cursor to the clock read
C7_Witness ==
  /\ variant = "A" /\ resetAt >= 0 /\ nextStartTime = resetAt /\ nextStartTime = clock
  /\ \E i \in DOMAIN sources :
       sources[i].ctx = outputAudioContext /\ End(i) > nextStartTime

\* C8: handling an interruption leaves every playback source stopped and the queue
\* empty, and a chunk scheduled afterwards starts at or after the clock read of the
\* reset.
C8_InterruptionStopsAll ==
  [][variant = "A" =>
       /\ IsInterruption => /\ audioQueue' = <<>>
                            /\ \A i \in DOMAIN sources' : sources'[i].stopped
       /\ (IsScheduled /\ resetAt >= 0) => Scheduled.start >= resetAt]_vars

\* a chunk was scheduled after an interruption that stopped a source
C8_Witness ==
  /\ variant = "A" /\ resetAt >= 0 /\ chain # 0
  /\ sources[chain].start >= resetAt
  /\ \E i \in DOMAIN sources : sources[i].stopped /\ sources[i].ctx = sources[chain].ctx

\* C9: a chunk scheduled next after another one of the same session, with no
\* interruption between them and the output clock not past the end of the earlier
\* one, starts exactly where the earlier one ends.
C9_Gapless ==
  \A i \in DOMAIN sources :
    (sources[i].prev # 0 /\ sources[i].at <= End(sources[i].prev))
      => sources[i].start = End(sources[i].prev)

\* three chunks of 250 ms arriving 200 ms apart start at t0, t0 + 250 ms, t0 + 500 ms
C9_Witness ==
  /\ Len(sources) = 3
  /\ \A i \in 1..3 : sources[i].dur = 5 /\ sources[i].prev = i - 1
  /\ \E t0 \in 0..4 :
       /\ sources[1].at = t0     /\ sources[1].start = t0
       /\ sources[2].at = t0 + 4 /\ sources[2].start = t0 + 5
       /\ sources[3].at = t0 + 8 /\ sources[3].start = t0 + 10

\* C10: a chunk scheduled when the output clock has passed nextStartTime starts at
\* the clock read taken at scheduling, and no playback source is started with a
\* start time earlier than the output clock's current time.
C10_CatchUp ==
  [][IsScheduled => /\ Scheduled.start >= clock
                    /\ clock > nextStartTime => Scheduled.start = clock]_vars

\* a chunk of the sessionPromise variant caught up with the clock
C10_Witness ==
  /\ variant = "B"
  /\ \E i \in DOMAIN sources :
       /\ sources[i].prev # 0 /\ sources[i].at > End(sources[i].prev)
       /\ sources[i].start = sources[i].at

\* the place of a teardown step in the sequence: mark inactive, close the transport,
\* stop the microphone tracks and detach the processing callback, release the input
\* context, stop the queue and release the output context, deliver the status
StepRank(what) ==
  CASE what = "inactive" -> 1
    [] what = "close" -> 2
    [] what \in {"tracks", "processor"} -> 3
    [] what = "inputContext" -> 4
    [] what \in {"queue", "outputContext"} -> 5
    [] what = "status" -> 6

InRange(x) == x.num <= x.den /\ x.num >= -x.den

\* |x - y| <= 1/32768, in integers
Within(x, y) ==
  LET a == x.num * y.den - y.num * x.den
      step == IF x.den % 32768 = 0 THEN (x.den \div 32768) * y.den
              ELSE (x.den * y.den) \div 32768
  IN (IF a < 0 THEN -a ELSE a) <= step

\* C12: every sample x in [-1, 1] that float32ToB64PCM converts to 16-bit PCM comes
\* back from decodeAudioData as a value within one quantization step, 1/32768, of x.
C12_CodecRoundTrip ==
  (stage = "buffer" /\ float32Array # <<>>)
    => /\ audioBuffer.thrown = "none"
       /\ \A i \in DOMAIN float32Array :
            InRange(float32Array[i])
              => /\ i \in DOMAIN audioBuffer.channelData
                 /\ Within(float32Array[i], audioBuffer.channelData[i])

\* C13: base64ToUint8Array applied to the text that the byte-to-text path of
\* float32ToB64PCM produced for a byte sequence returns that byte sequence: same
\* length, same bytes, same order.
C13_TextRoundTrip ==
  stage \in {"bytes", "buffer"} => bytes = [thrown |-> "none", v |-> pcm]

\* two bytes, one of them above 127, went to padded text and came back
C13_Witness ==
  /\ stage = "bytes" /\ Len(pcm) = 2 /\ 255 \in Range(pcm)
  /\ base64[Len(base64)] = 61
  /\ bytes.v = pcm

\* C14: decodeAudioData given a byte buffer of odd length throws; it returns no
\* audio buffer built from the even-length prefix.
C14_OddLengthFails ==
  (stage = "buffer" /\ Len(bytes.v) % 2 = 1) => audioBuffer.thrown # "none"

\* three bytes were given and the read of the second sample threw
C14_Witness ==
  /\ stage = "buffer" /\ Len(bytes.v) = 3
  /\ audioBuffer.thrown = "RangeError" /\ audioBuffer.channelData = <<>>

\* C15: a transport connect is started only by a call of connect() (at once, or
\* when the call resumes after outputAudioContext.resume()), at most once per call;
\* and a transport that failed to open, or delivered onError or onClose, is never
\* started again.
C15_NoAutoReconnect ==
  [][\A k \in Attempts :
       /\ (conn[k].tr # "connecting" /\ conn'[k].tr = "connecting")
            => /\ conn[k].tr = "none"
               /\ (nConnect' = nConnect + 1 /\ k = nConnect') \/ conn[k].pc = "resume"
       /\ (onerror(k) \/ onclose(k) \/ connectReject(k)) => ~Alive(k)'
       /\ (conn[k].tr = "failed" \/ conn[k].ended) => ~Alive(k)']_vars

\* the only attempt failed to open, was torn down, and no transport is live
C15_Witness ==
  /\ nConnect = 1 /\ conn[1].tr = "failed" /\ tornDown = 1
  /\ nDisconnect = limit.disconnects
  /\ LiveTransports = {}

\* C16: a chunk scheduled next after another one of the same session, with no
\* interruption between them, starts no earlier than the earlier one ends.
C16_NoOverlap ==
  \A i \in DOMAIN sources :
    sources[i].prev # 0 => sources[i].start >= End(sources[i].prev)

\* a chunk that came late started after a gap, and the next one right at its end
C16_Witness ==
  /\ variant = "A"
  /\ \E i, j \in DOMAIN sources :
       /\ sources[i].prev # 0 /\ sources[i].start > End(sources[i].prev)
       /\ sources[j].prev = i /\ sources[j].start = End(i)

\* C17: playback sources are started, and appended to the queue, in the order in
\* which their messages arrived.
C17_ArrivalOrder ==
  /\ \A i, j \in DOMAIN sources : i < j => sources[i].n < sources[j].n
  /\ \A i, j \in DOMAIN audioQueue : i < j => audioQueue[i] < audioQueue[j]

\* the chunks of messages 1 and 2 are queued in that order while message 3's is
\* being decoded
C17_Witness ==
  /\ Len(audioQueue) = 2
  /\ sources[audioQueue[1]].n = 1 /\ sources[audioQueue[2]].n = 2
  /\ Len(inflight) = 1 /\ inflight[1].n = 3

IsDecodeFailure == handlerResume(FALSE) \/ handlerResumeB(FALSE)
IsDecoded == handlerResume(TRUE) \/ handlerResumeB(TRUE)

\* C18: a handler whose decode failed changes no field of the client (nextStartTime
\* and the queue among them), starts no source, delivers no status, begins no
\* teardown and leaves the other handlers waiting; and a handler whose decode
\* succeeded, with the output context there, schedules its chunk.
C18_DecodeFailureSkips ==
  [][/\ IsDecodeFailure
          => /\ fields' = fields /\ devices' = devices
             /\ sources' = sources /\ statusLog' = statusLog /\ tornDown' = tornDown
             /\ inflight' = Tail(inflight)
     /\ (IsDecoded /\ outputAudioContext # Null)
          => /\ IsScheduled
             /\ Scheduled.n = Head(inflight).n]_vars

\* message 1 was a chunk whose decode failed; the chunk of message 2 is scheduled
C18_Witness ==
  /\ variant = "A" /\ nConnect = 1 /\ nDisconnect = 0 /\ resetAt = -1
  /\ nMsg = 2 /\ inflight = <<>>
  /\ Len(sources) = 1 /\ sources[1].n = 2 /\ audioQueue = <<1>>
  /\ statusLog = <<[s |-> "connected", a |-> 1, nested |-> FALSE]>>

\* C19: when onOpen is delivered for an attempt that has not been torn down,
\* startAudioInput goes on to ask for the microphone, whether or not the promise
\* of ai.live.connect has resolved.
C19_OnOpenStartsMicrophone ==
  [][\A k \in Attempts :
       (onopen(k) /\ tornDown < k) => conn'[k].gum = "pending"]_vars

\* C20 (as claimed): a 'connected' status of an attempt is preceded by the
\* attempt's onOpen.
C20_ConnectedFollowsOnOpen ==
  \A i \in DOMAIN statusLog :
    statusLog[i].s = "connected" => conn[statusLog[i].a].opened

\* C20 (amended): 'connected' is delivered by connect() itself, once per call and
\* first of all, before the transport connect is started and so before onOpen; no
\* other step delivers it.
C20_ConnectedAtConnectCall ==
  [][/\ (\E i \in DOMAIN statusLog' :
           i > Len(statusLog) /\ statusLog'[i].s = "connected")
          => nConnect' = nConnect + 1
     /\ nConnect' = nConnect + 1
          => /\ Len(statusLog') > Len(statusLog)
             /\ statusLog'[Len(statusLog) + 1].s = "connected"
             /\ statusLog'[Len(statusLog) + 1].a = nConnect'
             /\ \A i \in DOMAIN statusLog' :
                  i > Len(statusLog) + 1 => statusLog'[i].s # "connected"
             /\ conn[nConnect'].tr = "none" /\ ~conn[nConnect'].opened]_vars

\* onOpen came after the 'connected' status and delivered none
C20_Witness ==
  /\ conn[1].opened
  /\ statusLog = <<[s |-> "connected", a |-> 1, nested |-> FALSE]>>

\* C21: the handling of a transport error reports 'error' for that session and runs
\* the teardown: right after the handler every source that was queued is stopped,
\* the playback queue is empty and the output context is released and closed.
C21_ErrorTearsDown ==
  [][\A k \in Attempts :
       onerror(k) =>
         /\ Len(statusLog') > Len(statusLog)
         /\ statusLog'[Len(statusLog) + 1].s = "error"
         /\ statusLog'[Len(statusLog) + 1].a = k
         /\ audioQueue' = <<>>
         /\ \A i \in Range(audioQueue) : sources'[i].stopped
         /\ outputAudioContext' = Null
         /\ outputAudioContext # Null => outputAudioContext \notin outOpen']_vars

\* an error ended a session that had a source queued and was never interrupted nor
\* disconnected by its owner
C21_Witness ==
  /\ variant = "A" /\ nDisconnect = 0 /\ resetAt = -1
  /\ conn[1].opened /\ conn[1].ended
  /\ \E i \in DOMAIN statusLog : statusLog[i].s = "error" /\ ~statusLog[i].nested
  /\ \E i \in DOMAIN sources : sources[i].stopped
  /\ audioQueue = <<>> /\ outputAudioContext = Null /\ outOpen = {}

\* C22: in either variant, once ai.live.connect has rejected, the failure has been
\* reported as an 'error' status of that attempt and the output context connect()
\* created is no longer allocated.
C22_RejectReleasesContext ==
  \A k \in Attempts :
    conn[k].tr = "failed" =>
      /\ \E i \in DOMAIN statusLog : statusLog[i].s = "error" /\ statusLog[i].a = k
      /\ k \notin outOpen
      /\ outputAudioContext # k

\* C23: a failed microphone acquisition after the transport opened leaves the
\* session as it was: the session handle, the connected flag and the open transport
\* are kept and no status is reported, so that video frames are still transmitted.
C23_MicFailureKeepsSession ==
  [][\A k \in Attempts :
       (gumReject(k) \/ gumRejectB(k)) =>
         /\ session' = session /\ sessionPromise' = sessionPromise
         /\ isConnected' = isConnected
         /\ closed' = closed
         /\ statusLog' = statusLog]_vars

\* C24: the handling of an interruption changes the playback queue and
\* nextStartTime only: the session handle, the connected flag, the microphone
\* stream, the processor, both audio contexts and the devices behind them are left
\* as they were and no status is reported.
C24_InterruptionTouchesPlaybackOnly ==
  [][IsInterruption =>
       /\ session' = session /\ isConnected' = isConnected
       /\ mediaStream' = mediaStream /\ processor' = processor
       /\ inputAudioContext' = inputAudioContext
       /\ outputAudioContext' = outputAudioContext
       /\ UNCHANGED devices
       /\ statusLog' = statusLog /\ tornDown' = tornDown]_vars

\* an interruption has just stopped a queued source of a session whose microphone
\* is capturing
C24_Witness ==
  /\ variant = "A" /\ resetAt = clock /\ nextStartTime = clock /\ audioQueue = <<>>
  /\ \E i \in DOMAIN sources : sources[i].stopped
  /\ session # Null /\ isConnected /\ outputAudioContext # Null
  /\ mediaStream # Null /\ processor # Null /\ inputAudioContext # Null
  /\ tornDown = 0
  /\ \A i \in DOMAIN statusLog : statusLog[i].s = "connected"

\* C25: a message handler that was waiting for the decode when its session was
\* torn down (the teardown closed the transport that delivered its message)
\* schedules nothing when it resumes: no source is created, nothing is appended to
\* the playback queue and nextStartTime is unchanged, whether or not a new connect()
\* has started since.
C25_TornDownHandlerSchedulesNothing ==
  [][\A ok \in BOOLEAN :
       (handlerResume(ok) /\ Head(inflight).k <= tornDown
                          /\ Head(inflight).k \in closed) =>
         /\ sources' = sources
         /\ audioQueue' = audioQueue
         /\ nextStartTime' = nextStartTime]_vars

\* C26: float32ToB64PCM turns each sample into the 16-bit value of its clamped,
\* scaled magnitude: a sample at or below -1 gives -32768, one at or above +1 gives
\* 32767, 0 gives 0, a negative sample inside the range is scaled by 32768 and a
\* positive one by 32767, so no value wraps around (the sign is kept).
C26_ClampedScaling ==
  (stage # "samples" /\ float32Array # <<>>) =>
    /\ Len(pcm) = 2 * Len(float32Array)
    /\ \A i \in DOMAIN float32Array :
         LET x == float32Array[i]
             int16 == getInt16(pcm, 2 * (i - 1))
         IN /\ x.num <= -x.den => int16 = -32768
            /\ x.num >= x.den => int16 = 32767
            /\ x.num = 0 => int16 = 0
            /\ (-x.den < x.num /\ x.num < 0) =>
                  int16 = Trunc(x.num * 32768, x.den) /\ int16 <= 0
            /\ (0 < x.num /\ x.num < x.den) =>
                  int16 = Trunc(x.num * 32767, x.den) /\ int16 >= 0

\* a block with a sample above +1 and a sample below -1 has been converted
C26_Witness ==
  /\ stage = "text"
  /\ \E i, j \in DOMAIN float32Array :
       /\ float32Array[i].num > float32Array[i].den
       /\ getInt16(pcm, 2 * (i - 1)) = 32767
       /\ float32Array[j].num < -float32Array[j].den
       /\ getInt16(pcm, 2 * (j - 1)) = -32768

RECURSIVE CountKind(_, _)
CountKind(q, kind) ==
  IF q = <<>> THEN 0
  ELSE (IF Head(q) = kind THEN 1 ELSE 0) + CountKind(Tail(q), kind)

RECURSIVE SumOver(_, _)
SumOver(f, S) ==
  IF S = {} THEN 0
  ELSE LET x == CHOOSE y \in S : TRUE IN f[x] + SumOver(f, S \ {x})

\* the video frames handed to a transport or chained on a pending one
VideoHanded ==
  CountKind([i \in DOMAIN sent |-> sent[i].kind], "video")
  + SumOver([k \in Attempts |-> CountKind([i \in DOMAIN thenQ[k] |-> thenQ[k][i].kind],
                                            "video")], Attempts)

\* C27: the frame timer's callback sends a frame only when it obtained a
\* screenshot: the frames handed to the transport (or chained on it) never exceed
\* the screenshots obtained, one tick hands over at most one frame, and a tick
\* without a screenshot sends nothing and chains nothing.
C27_FrameOnlyWithScreenshot ==
  /\ [](VideoHanded <= nShots)
  /\ [][frameTick =>
          /\ VideoHanded' <= VideoHanded + 1
          /\ camera # "ready" => (sent' = sent /\ thenQ' = thenQ)]_vars

\* the timer is running for a connected client, one tick has sent its screenshot
\* and the webcam has no screenshot for the next tick
C27_Witness ==
  /\ app = "second" /\ timers # {} /\ liveClientRef # Null
  /\ camera = "starting" /\ nShots = 1 /\ VideoHanded = 1
  /\ \/ variant = "A" /\ session # Null /\ isConnected
     \/ variant = "B" /\ sessionPromise # Null

\* C28: the microphone blocks of a session reach its transport in the order they
\* were captured: of two audio chunks handed to the same session, the one handed
\* over first was captured first.  So it is where the send is made in the capture
\* callback (lines 148-164) and where it is chained on sessionPromise (348-363).
C28_CaptureOrder ==
  \A i, j \in DOMAIN sent :
    (i < j /\ sent[i].kind = "audio" /\ sent[j].kind = "audio"
           /\ sent[i].to = sent[j].to) => sent[i].block < sent[j].block

\* two blocks captured for a session of the sessionPromise variant have been
\* handed to it
C28_Witness ==
  /\ variant = "B" /\ conn[1].tr = "ready" /\ thenQ[1] = <<>>
  /\ Len(sent) = 2
  /\ sent[1].kind = "audio" /\ sent[1].block = 1
  /\ sent[2].kind = "audio" /\ sent[2].block = 2
  /\ mediaStream # Null

\* C29: when the retry timeout set by an 'aborted' or 'network' error fires and
\* the hook is still mounted, a new recognition is started; and a recognition error
\* of any other kind sets no retry timeout.
C29_RetryStartsRecognition ==
  [][/\ \A t \in Recognitions :
          (retryFires(t) /\ isMounted) =>
             \E r \in Recognitions : recog[r] = "none" /\ recog'[r] = "starting"
     /\ \A r \in Recognitions, error \in Errors \ {"aborted", "network"} :
          onerrorSpeech(r, error) =>
             (timeouts' = timeouts /\ retryTimeoutRef' = retryTimeoutRef)]_vars

\* C30: once the teardown has run for an attempt, the settling of that attempt's
\* pending ai.live.connect leaves the client not live: the transport it opened is
\* closed, the client holds no session handle for it and, no newer connect() having
\* been made, isConnected is false and no microphone capture was started for it.
C30_SettlesNotLive ==
  \A k \in Attempts :
    (variant = "A" /\ k <= tornDown /\ conn[k].pc = "done") =>
      /\ conn[k].tr = "ready" => k \in closed
      /\ session # k
      /\ k \notin inOpen
      /\ nConnect = k => (~isConnected /\ mediaStream = Null /\ processor = Null)

C34_NoRetryAfterStop ==
  [][recognitionRef = Null =>
       /\ \A t \in Recognitions : retryFires(t) => recog' = recog
       /\ \A r \in Recognitions, error \in Errors :
            onerrorSpeech(r, error) => timeouts' \subseteq timeouts]_vars

\* C32: in the App that drives LiveClient, whenever no live client exists (the App
\* holds no client after stopSession(), or the client it made reported 'error' or
\* 'disconnected', a failed connect included) no video frame interval timer of
\* that client is active, also when the stop or the failure happens while
\* startLiveNavigation is awaiting connect(); and at most one frame timer is
\* active at any time.
C32_NoFrameTimerWithoutClient ==
  app = "second" =>
    /\ liveClientRef = Null => timers = {}
    /\ \A i \in DOMAIN statusLog :
         statusLog[i].s \in Terminal => statusLog[i].a \notin timers
    /\ Cardinality(timers) <= 1

\* C33: in the App whose status callback calls stopSession() on 'disconnected' or
\* 'error', every call of stopSession() terminates: the chain stopSession ->
\* LiveClient.disconnect -> onStatusChange('disconnected') -> stopSession ends by
\* itself, so no task ends with the call stack exhausted.
C33_StopSessionTerminates ==
  app = "first" => \A i \in DOMAIN steps : steps[i].step # "RangeError"

\* the navigationLoop instances that are running: called and not returned
Running == {l \in Loops : loops[l].pc \in {"pause", "analyzing", "wait"}}

\* C35: in the continuous-navigation App at most one navigationLoop is running at
\* any time; stopping navigation and starting it again, at any point of the old
\* loop's analysis or wait, never leaves the old loop running beside the new one.
C35_OneNavigationLoop ==
  app = "continuous" => Cardinality(Running) <= 1

\* C36: in App.tsx, after handleStop() a navigation analysis that was still in
\* flight does not speak or display its result and does not set the navigation
\* loop timeout again, so no navigation timeout is pending while the mode is IDLE.
C36_StoppedAnalysisIsDropped ==
  /\ [](app = "tsx" /\ mode = "IDLE" => navTimers = {})
  /\ [][\A l \in Loops, safetyInfo \in SafetyInfos :
          (safetyInfoReturns(l, safetyInfo) /\ mode = "IDLE") =>
             /\ spoken' = spoken
             /\ navTimers' \subseteq navTimers]_vars

====
